---- MODULE Spec2Model ----
(***************************************************************************)
(* A model of the busfile tools of ee-tools (src/bus): the busfile parser  *)
(* busparse.py with its bus-name and vector-range expanders, the PWL       *)
(* generator bus2pwl.py and the waveform checker busverify.py.             *)
(*                                                                         *)
(* Python strings are modelled as sequences of one-character strings, so   *)
(* that splitting, slicing, parsing and formatting are computed the way    *)
(* the code computes them.                                                 *)
(***************************************************************************)
EXTENDS Integers, Sequences, FiniteSets, TLC

VARIABLES
    fn,         \* the pure function under call: "expand_signal", "expand_vector"
    arg,        \* its argument (a token)
    ret,        \* its outcome: NotCalled, or [err |-> ..., val |-> ...]
    file,       \* the busfile: a sequence of lines, each ending in "\n"
    pos,        \* the file cursor: index of the next line readline() returns
    pc,         \* position of parse_busfile in its code
    section,    \* "in" while the input section is read, "out" for the output section
    line,       \* the local `line` of the reader that is running
    fposition,  \* the local `fposition` of the reader that is running
    params,     \* the params dict of read_params
    sigs,       \* the local `signals` list read_signals builds
    vecs,       \* the local `vectors` list read_vectors builds
    signals,    \* parse_busfile: signals
    vectors,    \* parse_busfile: vectors
    output_signals,  \* parse_busfile: output_signals
    output_vectors,  \* parse_busfile: output_vectors
    file_contents,   \* parse_busfile: file_contents
    err,        \* the exception that ended the parse, "" while there is none
    pwl,        \* bus2pwl: what was written to the .pwl file, in order
    time_array, \* busverify: the time axis of the raw file
    traces,     \* busverify: the samples of every net of the raw file
    all_passed, \* busverify: all_passed
    signal_index,   \* the place of a for loop in the signals it goes through
    loop_edge_time, \* busverify: loop_edge_time
    su_index,   \* busverify: su_index
    hold_index, \* busverify: hold_index
    bit_count,  \* busverify: bit_count
    simulation_results, \* busverify: simulation_results
    v_avg,      \* busverify: v_avg, as the sum of the samples over their number
    log         \* busverify: the verdicts logged per signal

tool_vars == <<pwl, time_array, traces, all_passed, signal_index, loop_edge_time,
               su_index, hold_index, bit_count, simulation_results, v_avg, log>>

\* what busverify alone works on
verify_vars == <<time_array, traces, all_passed, loop_edge_time, su_index,
                 hold_index, bit_count, simulation_results, v_avg, log>>

\* what the parser keeps besides its position in the code and its exception
parsed_vars == <<file, pos, section, line, fposition, params, sigs, vecs, signals,
                 vectors, output_signals, output_vectors, file_contents>>

vars == <<fn, arg, ret, file, pos, pc, section, line, fposition, params, sigs,
          vecs, signals, vectors, output_signals, output_vectors,
          file_contents, err, tool_vars>>

parser_vars == <<file, pos, pc, section, line, fposition, params, sigs,
                 vecs, signals, vectors, output_signals, output_vectors,
                 file_contents, err>>

call_vars == <<fn, arg, ret>>

-----------------------------------------------------------------------------
(* Characters and Python's str operations *)

\* The printable ASCII characters in code-point order, from 32 (space) to 126.
\* The double quote, the backslash and the backtick, which no busfile of the
\* model contains, are held by their names.
Ascii ==
    <<" ", "!", "DQUOTE", "#", "$", "%", "&", "'", "(", ")", "*", "+", ",", "-", ".", "/",
      "0", "1", "2", "3", "4", "5", "6", "7", "8", "9", ":", ";", "<", "=", ">", "?",
      "@", "A", "B", "C", "D", "E", "F", "G", "H", "I", "J", "K", "L", "M", "N", "O",
      "P", "Q", "R", "S", "T", "U", "V", "W", "X", "Y", "Z", "[", "BACKSLASH", "]", "^", "_",
      "BACKTICK", "a", "b", "c", "d", "e", "f", "g", "h", "i", "j", "k", "l", "m", "n", "o",
      "p", "q", "r", "s", "t", "u", "v", "w", "x", "y", "z", "{", "|", "}", "~">>

\* ord(c)
Ord(c) ==
    IF c = "\n" THEN 10
    ELSE IF c = "\t" THEN 9
    ELSE 31 + (CHOOSE i \in 1..Len(Ascii) : Ascii[i] = c)

\* chr(n) for printable n
Chr(n) == Ascii[n - 31]

\* str.lower() of one character
LowerChar(c) == IF Ord(c) >= 65 /\ Ord(c) <= 90 THEN Chr(Ord(c) + 32) ELSE c

\* s.lower()
Lower(s) == [i \in 1..Len(s) |-> LowerChar(s[i])]

\* str.isspace() of one character
IsSpace(c) == c \in {" ", "\t", "\n"}

\* s[k:] for k >= 0
From(s, k) == IF k >= Len(s) THEN <<>> ELSE SubSeq(s, k + 1, Len(s))

\* s[:-1]
DropLast(s) == IF Len(s) = 0 THEN <<>> ELSE SubSeq(s, 1, Len(s) - 1)

\* c in s
Contains(s, c) == \E i \in 1..Len(s) : s[i] = c

\* s.startswith(p)
StartsWith(s, p) == Len(s) >= Len(p) /\ SubSeq(s, 1, Len(p)) = p

\* the index of the first c in s, 0 when there is none
IndexOf(s, c) ==
    IF Contains(s, c) THEN CHOOSE i \in 1..Len(s) : s[i] = c /\ \A j \in 1..(i - 1) : s[j] # c
    ELSE 0

\* s.partition(c): <<before, separator, after>>
Partition(s, c) ==
    LET i == IndexOf(s, c)
    IN  IF i = 0 THEN <<s, <<>>, <<>>>>
        ELSE <<SubSeq(s, 1, i - 1), <<c>>, SubSeq(s, i + 1, Len(s))>>

\* s.split(c) for a one-character separator: never an empty list
RECURSIVE Split(_, _)
Split(s, c) ==
    LET i == IndexOf(s, c)
    IN  IF i = 0 THEN <<s>>
        ELSE <<SubSeq(s, 1, i - 1)>> \o Split(SubSeq(s, i + 1, Len(s)), c)

\* s.strip()
RECURSIVE LStrip(_)
LStrip(s) == IF Len(s) > 0 /\ IsSpace(s[1]) THEN LStrip(Tail(s)) ELSE s

RECURSIVE RStrip(_)
RStrip(s) == IF Len(s) > 0 /\ IsSpace(s[Len(s)]) THEN RStrip(DropLast(s)) ELSE s

Strip(s) == RStrip(LStrip(s))

\* s.split(): the maximal runs of non-whitespace characters, in order
RECURSIVE SplitWs(_)
SplitWs(s) ==
    LET t == LStrip(s)
    IN  IF Len(t) = 0 THEN <<>>
        ELSE LET n == IF \E i \in 1..Len(t) : IsSpace(t[i])
                      THEN (CHOOSE i \in 1..Len(t) :
                                IsSpace(t[i]) /\ \A j \in 1..(i - 1) : ~IsSpace(t[j])) - 1
                      ELSE Len(t)
             IN  <<SubSeq(t, 1, n)>> \o SplitWs(From(t, n))

\* a < b on str: lexicographic order of the code points
RECURSIVE StrLess(_, _)
StrLess(a, b) ==
    IF Len(b) = 0 THEN FALSE
    ELSE IF Len(a) = 0 THEN TRUE
    ELSE IF a[1] # b[1] THEN Ord(a[1]) < Ord(b[1])
    ELSE StrLess(Tail(a), Tail(b))

-----------------------------------------------------------------------------
(* Python's int(), format() and range() *)

\* the value of a digit character in bases up to 16, 99 for any other character
DigitVal(c) ==
    LET o == Ord(LowerChar(c))
    IN  IF o >= 48 /\ o <= 57 THEN o - 48
        ELSE IF o >= 97 /\ o <= 102 THEN o - 87
        ELSE 99

IsDigits(s, base) == Len(s) > 0 /\ \A i \in 1..Len(s) : DigitVal(s[i]) < base

RECURSIVE DigitsVal(_, _)
DigitsVal(s, base) ==
    IF Len(s) = 0 THEN 0
    ELSE DigitsVal(DropLast(s), base) * base + DigitVal(s[Len(s)])

\* the literal without its sign
Unsigned(s) == IF Len(s) > 0 /\ s[1] \in {"+", "-"} THEN Tail(s) ELSE s

\* the digits of an unsigned literal: int(s, 16) and int(s, 2) allow the
\* base prefix "0x" and "0b", int(s) in base 10 allows none
Body(u, base) ==
    IF base = 16 /\ StartsWith(Lower(u), <<"0", "x">>) THEN From(u, 2)
    ELSE IF base = 2 /\ StartsWith(Lower(u), <<"0", "b">>) THEN From(u, 2)
    ELSE u

\* int(s, base) succeeds (it raises ValueError otherwise)
IsPyInt(s, base) == IsDigits(Body(Unsigned(s), base), base)

\* int(s, base)
PyInt(s, base) ==
    LET v == DigitsVal(Body(Unsigned(s), base), base)
    IN  IF Len(s) > 0 /\ s[1] = "-" THEN 0 - v ELSE v

\* the digits of n >= 0 in the base, most significant first
RECURSIVE NatStr(_, _)
NatStr(n, base) ==
    IF n < base THEN <<Chr(IF n < 10 THEN 48 + n ELSE 87 + n)>>
    ELSE NatStr(n \div base, base) \o NatStr(n % base, base)

\* '%i' % n
IntStr(n) == IF n < 0 THEN <<"-">> \o NatStr(0 - n, 10) ELSE NatStr(n, 10)

\* format(n, 'b')
FormatB(n) == IF n < 0 THEN <<"-">> \o NatStr(0 - n, 2) ELSE NatStr(n, 2)

\* bin(n)
Bin(n) ==
    IF n < 0 THEN <<"-", "0", "b">> \o NatStr(0 - n, 2)
    ELSE <<"0", "b">> \o NatStr(n, 2)

Zeros(k) == [i \in 1..k |-> "0"]

\* s.zfill(width): zeros go after a leading sign
ZFill(s, width) ==
    IF Len(s) >= width THEN s
    ELSE IF Len(s) > 0 /\ s[1] \in {"+", "-"}
         THEN <<s[1]>> \o Zeros(width - Len(s)) \o Tail(s)
         ELSE Zeros(width - Len(s)) \o s

\* len(range(start, stop, step)) for step # 0
RangeLen(start, stop, step) ==
    IF step > 0 THEN (IF start < stop THEN (stop - start + step - 1) \div step ELSE 0)
    ELSE (IF start > stop THEN (start - stop - step - 1) \div (0 - step) ELSE 0)

\* list(range(start, stop, step)) for step # 0
PyRange(start, stop, step) ==
    [i \in 1..RangeLen(start, stop, step) |-> start + (i - 1) * step]

-----------------------------------------------------------------------------
(* Outcomes of a call *)

NotCalled == [err |-> "not called", val |-> <<>>]

Return(v) == [err |-> "", val |-> v]

Raise(e) == [err |-> e, val |-> <<>>]

-----------------------------------------------------------------------------
(* busparse.expand_signal *)

\* a bus walked upward whatever the order of its bounds
signal_inc_upward(start, stop) == 1

\* inc = 1 if (stop > start) else -1
signal_inc(start, stop) == IF stop > start THEN 1 ELSE -1

\* lines 265-268: the wires of the bus, in the order of the range
bus_wires(name, signal_bus, suffix) ==
    Return([k \in 1..Len(signal_bus) |->
               name \o <<"[">> \o IntStr(signal_bus[k]) \o <<"]">> \o suffix])

\* lines 264-265: signal_bus = range(start, (stop + inc), inc)
bus_range(start, stop, inc) == PyRange(start, stop + inc, inc)

\* lines 247-276, on the parts the three partitions gave
expand_parts(name, lbrack, left, colon, right, rbrack, suffix) ==
    IF Len(name) = 0 THEN Raise("NameExpandError")
    ELSE IF Len(lbrack) > 0 /\ Len(colon) > 0 /\ Len(rbrack) > 0
    THEN IF ~(IsPyInt(left, 10) /\ IsPyInt(right, 10))
         THEN Raise("NameExpandError")
         ELSE bus_wires(name,
                        bus_range(PyInt(left, 10), PyInt(right, 10),
                                  signal_inc(PyInt(left, 10), PyInt(right, 10))),
                        suffix)
    ELSE Raise("NameExpandError")

\* line 245: right, rbrack, suffix = end.partition(']')
expand_end(name, lbrack, left, colon, p3) ==
    expand_parts(name, lbrack, left, colon, p3[1], p3[2], p3[3])

\* line 244: left, colon, end = tail.partition(':')
expand_tail(name, lbrack, p2) ==
    expand_end(name, lbrack, p2[1], p2[2], Partition(p2[3], "]"))

\* line 243: name, lbrack, tail = signal.partition('[')
expand_head(p1) == expand_tail(p1[1], p1[2], Partition(p1[3], ":"))

expand_signal(signal) == expand_head(Partition(signal, "["))

-----------------------------------------------------------------------------
(* busparse.bin_str and busparse.expand_vector *)

bin_str(tok) ==
    IF StartsWith(tok, <<"0", "x">>)
    THEN LET bin_strlen == 4 * (Len(tok) - 2)
         IN  IF ~IsPyInt(From(tok, 2), 16) THEN Raise("ValueError")
             ELSE LET intval == PyInt(From(tok, 2), 16)
                      binstr == Bin(intval)
                      bitstr == From(binstr, 2)
                  IN  Return(ZFill(bitstr, bin_strlen))
    ELSE IF StartsWith(tok, <<"0", "b">>) THEN Return(From(tok, 2))
    ELSE Return(tok)

\* direction = 1 if range_parts[0] < range_parts[1] else -1
\* (range_parts are the strings the token splits into at ',')
vector_direction(range_parts) ==
    IF StrLess(range_parts[1], range_parts[2]) THEN 1 ELSE -1

\* stop > 2**n_bits (2**n_bits lies strictly between 0 and 1 for n_bits < 0)
vector_overflow(stop, n_bits) ==
    IF n_bits >= 0 THEN stop > 2 ^ n_bits ELSE stop >= 1

\* lines 107-115: the base the start literal is read in
start_base(start) ==
    IF StartsWith(Lower(start), <<"0", "x">>) THEN 16
    ELSE IF StartsWith(Lower(start), <<"0", "b">>) THEN 2
    ELSE 10

\* lines 107-115: the characters of the start literal handed to int()
start_text(start, base) == IF base = 10 THEN From(start, 1) ELSE From(start, 3)

\* lines 117-125: the base the stop literal is read in
stop_base(stop) ==
    IF StartsWith(Lower(stop), <<"0", "x">>) THEN 16
    ELSE IF StartsWith(Lower(stop), <<"0", "b">>) THEN 2
    ELSE 10

\* lines 117-125: the characters of the stop literal handed to int()
stop_text(stop, base) ==
    IF base = 10 THEN DropLast(stop) ELSE DropLast(From(stop, 2))

\* lines 139-141: the numbers of the range as zero-padded bit strings
range_strings(r, n_bits) ==
    Return([k \in 1..Len(r) |-> ZFill(FormatB(r[k]), n_bits)])

\* lines 136-139: range(range_sorted[0], range_sorted[1] + 1, step * direction);
\* range() raises ValueError for a step of zero
sorted_range(lo, hi, stride, n_bits) ==
    IF stride = 0 THEN Raise("ValueError")
    ELSE range_strings(PyRange(lo, hi + 1, stride), n_bits)

\* lines 130-141, on the integers of the token
expand_numbers(n_bits, start, step, stop, direction) ==
    IF vector_overflow(stop, n_bits) THEN Raise("VectorRangeError")
    ELSE sorted_range(IF start <= stop THEN start ELSE stop,
                      IF start <= stop THEN stop ELSE start,
                      step * direction, n_bits)

\* lines 106-128, on the literals of the token and their bases
expand_literals(n_bits, start_s, sbase, step, stop_s, ebase, direction) ==
    IF ~IsPyInt(start_text(start_s, sbase), sbase) THEN Raise("ValueError")
    ELSE IF ~IsPyInt(stop_text(stop_s, ebase), ebase) THEN Raise("ValueError")
    ELSE expand_numbers(n_bits, PyInt(start_text(start_s, sbase), sbase), step,
                        PyInt(stop_text(stop_s, ebase), ebase), direction)

\* lines 96-105 and 135, on the parts between the commas
expand_range_parts(n_bits, range_parts) ==
    IF Len(range_parts) \notin {2, 3} THEN Raise("AssertionError")
    ELSE IF Len(range_parts) = 3 /\ ~IsPyInt(range_parts[2], 10)
    THEN Raise("ValueError")
    ELSE expand_literals(n_bits,
                         range_parts[1], start_base(range_parts[1]),
                         IF Len(range_parts) = 2 THEN 1 ELSE PyInt(range_parts[2], 10),
                         range_parts[Len(range_parts)],
                         stop_base(range_parts[Len(range_parts)]),
                         vector_direction(range_parts))

\* lines 86-95, on the parts around ']'
expand_bracket_parts(parts) ==
    IF ~IsPyInt(From(parts[1], 1), 10) THEN Raise("ValueError")
    ELSE IF Len(parts) < 2 THEN Raise("IndexError")
    ELSE expand_range_parts(PyInt(From(parts[1], 1), 10), Split(parts[2], ","))

expand_vector(range_token) == expand_bracket_parts(Split(range_token, "]"))

-----------------------------------------------------------------------------
(* The tokens the expanders are called on *)

MaxIndex == 5

\* bus indices, with negative and two-digit ones
Indices == (-2..MaxIndex) \cup {10, 11}

SignalNames == {<<>>, <<"b">>, <<"b", "u", "s">>, <<"a", ":">>}

Suffixes == {<<>>, <<"x">>, <<"]">>}

\* what may stand where a bus index is expected
IndexTexts == {IntStr(i) : i \in Indices} \cup {<<>>, <<"x">>, <<"+", "3">>}

Opt(present, c) == IF present THEN <<c>> ELSE <<>>

\* name[left:right]suffix, with each of '[', ':' and ']' present or left out
BusToken(name, lbrack, left, colon, right, rbrack, suffix) ==
    name \o Opt(lbrack, "[") \o left \o Opt(colon, ":") \o right
         \o Opt(rbrack, "]") \o suffix

SignalTokens ==
    {BusToken(name, lb, l, co, r, rb, suffix) :
        name \in SignalNames, lb \in BOOLEAN, l \in IndexTexts, co \in BOOLEAN,
        r \in IndexTexts, rb \in BOOLEAN, suffix \in Suffixes}

MaxBits == 3

MaxValue == 8

Dec(v) == IntStr(v)

Hex(v) == <<"0", "x">> \o NatStr(v, 16)

BinLit(v) == <<"0", "b">> \o NatStr(v, 2)

Forms == {"dec", "hex", "bin"}

Literal(form, v) ==
    IF form = "hex" THEN Hex(v) ELSE IF form = "bin" THEN BinLit(v) ELSE Dec(v)

Literals == {Literal(f, v) : f \in Forms, v \in 0..MaxValue}

MaxStep == 3

Steps == -1..MaxStep

\* [N](start,stop)
RangeToken2(n, start, stop) ==
    <<"[">> \o IntStr(n) \o <<"]", "(">> \o start \o <<",">> \o stop \o <<")">>

\* [N](start,step,stop)
RangeToken3(n, start, step, stop) ==
    <<"[">> \o IntStr(n) \o <<"]", "(">> \o start \o <<",">> \o IntStr(step)
            \o <<",">> \o stop \o <<")">>

MalformedRangeTokens ==
    {<<"[", "2">>, <<"2", "]", "(", "0", ",", "3", ")">>,
     <<"[", "2", "]", "(", "0", ")">>, <<"[", "2", "]", "(", "0", ",", "3">>,
     <<"[", "]", "(", "0", ",", "1", ")">>, <<"[", "2", "]", "x", "5", ",", "3", ")">>}

RangeTokens ==
    {RangeToken2(n, a, b) : n \in 0..MaxBits, a \in Literals, b \in Literals}
    \cup {RangeToken3(n, a, s, b) :
            n \in 0..MaxBits, a \in Literals, s \in Steps, b \in Literals}
    \cup MalformedRangeTokens

-----------------------------------------------------------------------------
(* Calls of the expanders on one token *)

ParserIdle ==
    /\ file = <<>> /\ pos = 1 /\ pc = "idle" /\ section = "in"
    /\ line = <<>> /\ fposition = 1 /\ params = <<>>
    /\ sigs = <<>> /\ vecs = <<>> /\ signals = <<>> /\ vectors = <<>>
    /\ output_signals = <<>> /\ output_vectors = <<>>
    /\ file_contents = [params |-> <<>>, signals |-> <<>>, outputs |-> <<>>]
    /\ err = [type |-> "", arg |-> <<>>]

\* neither bus2pwl nor busverify has started
ToolsIdle ==
    /\ pwl = <<>> /\ time_array = <<>> /\ traces = <<>>
    /\ all_passed = TRUE /\ signal_index = 0
    /\ loop_edge_time = [c |-> 0, e |-> 0]
    /\ su_index = 0 /\ hold_index = 0 /\ bit_count = 0
    /\ simulation_results = <<>> /\ v_avg = [sum |-> [c |-> 0, e |-> 0], n |-> 1]
    /\ log = <<>>

InitSignal ==
    /\ fn = "expand_signal" /\ arg \in SignalTokens /\ ret = NotCalled
    /\ ParserIdle /\ ToolsIdle

CallExpandSignal ==
    /\ fn = "expand_signal" /\ ret = NotCalled
    /\ ret' = expand_signal(arg)
    /\ UNCHANGED <<fn, arg, parser_vars, tool_vars>>

SpecSignal == InitSignal /\ [][CallExpandSignal]_vars

InitVector ==
    /\ fn = "expand_vector" /\ arg \in RangeTokens /\ ret = NotCalled
    /\ ParserIdle /\ ToolsIdle

CallExpandVector ==
    /\ fn = "expand_vector" /\ ret = NotCalled
    /\ ret' = expand_vector(arg)
    /\ UNCHANGED <<fn, arg, parser_vars, tool_vars>>

SpecVector == InitVector /\ [][CallExpandVector]_vars

-----------------------------------------------------------------------------
(* Properties of expand_signal and expand_vector *)

Abs(x) == IF x < 0 THEN 0 - x ELSE x

Called(f) == fn = f /\ ret # NotCalled

\* s is n characters, each '0' or '1'
IsBits(s, n) == Len(s) = n /\ \A i \in 1..Len(s) : s[i] \in {"0", "1"}

\* the integer a string of bits stands for
Decode(s) == DigitsVal(s, 2)

\* the k-th integer on the way from a toward b in strides of s
Toward(a, b, s, k) == IF a <= b THEN a + (k - 1) * s ELSE a - (k - 1) * s

\* n bits hold v
Fits(v, n) == v <= 2 ^ n - 1

\* C1: for every bus token name[a:b]suffix with a non-empty name and integer
\* a and b, expand_signal returns exactly |a-b|+1 names, name[i]suffix for
\* every i from a to b inclusive, ordered from a toward b.
C1_ExpandSignalRange ==
    Called("expand_signal") =>
        \A name \in SignalNames \ {<<>>} :
            StartsWith(arg, name \o <<"[">>) =>
                \A a \in Indices :
                    StartsWith(arg, name \o <<"[">> \o IntStr(a) \o <<":">>) =>
                        \A b \in Indices, suffix \in Suffixes :
                            arg = BusToken(name, TRUE, IntStr(a), TRUE, IntStr(b), TRUE, suffix) =>
                                /\ ret.err = ""
                                /\ Len(ret.val) = Abs(a - b) + 1
                                /\ \A k \in 1..Len(ret.val) :
                                       ret.val[k] = name \o <<"[">> \o IntStr(Toward(a, b, 1, k))
                                                         \o <<"]">> \o suffix

\* C1 witness: "bus[4:0]" has been expanded into five names, bus[4] first
\* and bus[0] last.
C1_Witness ==
    /\ Called("expand_signal")
    /\ arg = <<"b", "u", "s", "[", "4", ":", "0", "]">>
    /\ ret.err = ""
    /\ Len(ret.val) = 5
    /\ ret.val[1] = <<"b", "u", "s", "[", "4", "]">>
    /\ ret.val[5] = <<"b", "u", "s", "[", "0", "]">>

\* C2: for every range token [N](start,stop) with decimal start and stop that
\* N bits hold, expand_vector returns |start-stop|+1 strings of exactly N
\* characters '0'/'1' whose values are the integers from start to stop in that
\* order, ascending when start < stop and descending when start > stop.
C2_RangeBothDirections ==
    Called("expand_vector") =>
        \A n \in 0..MaxBits :
            StartsWith(arg, <<"[">> \o IntStr(n) \o <<"]">>) =>
                \A a, b \in 0..MaxValue :
                    (Fits(a, n) /\ Fits(b, n) /\ arg = RangeToken2(n, Dec(a), Dec(b))) =>
                        /\ ret.err = ""
                        /\ Len(ret.val) = Abs(a - b) + 1
                        /\ \A k \in 1..Len(ret.val) :
                               /\ IsBits(ret.val[k], n)
                               /\ Decode(ret.val[k]) = Toward(a, b, 1, k)

\* C3: for every range token [N](start,step,stop) with step >= 1 (and start,
\* stop that N bits hold), expand_vector returns the N-bit strings of start,
\* start+-step, ... up to and not passing stop, beginning at start and moving
\* toward stop.
C3_SteppedRange ==
    Called("expand_vector") =>
        \A n \in 0..MaxBits :
            StartsWith(arg, <<"[">> \o IntStr(n) \o <<"]">>) =>
                \A a, b \in 0..MaxValue, s \in 1..MaxStep :
                    (Fits(a, n) /\ Fits(b, n) /\ arg = RangeToken3(n, Dec(a), s, Dec(b))) =>
                        /\ ret.err = ""
                        /\ Len(ret.val) = (Abs(a - b) \div s) + 1
                        /\ \A k \in 1..Len(ret.val) :
                               /\ IsBits(ret.val[k], n)
                               /\ Decode(ret.val[k]) = Toward(a, b, s, k)

\* C4: start and stop are each accepted in decimal, "0x" hexadecimal and "0b"
\* binary form, and the same integers written in any of the forms give the
\* expansion their decimal forms give.
C4_LiteralFormsAgree ==
    Called("expand_vector") =>
        \A n \in 0..MaxBits :
            StartsWith(arg, <<"[">> \o IntStr(n) \o <<"]">>) =>
                \A a, b \in 0..MaxValue, f1, f2 \in Forms :
                    (/\ arg = RangeToken2(n, Literal(f1, a), Literal(f2, b))
                     /\ expand_vector(RangeToken2(n, Dec(a), Dec(b))).err = "") =>
                        ret = expand_vector(RangeToken2(n, Dec(a), Dec(b)))

\* C5: expand_vector fails with VectorRangeError whenever stop requires more
\* than N bits (stop > 2^N - 1), and no successful expansion contains a string
\* longer than N characters.
C5_StopNeedsMoreBits ==
    Called("expand_vector") =>
        \A n \in 0..MaxBits :
            StartsWith(arg, <<"[">> \o IntStr(n) \o <<"]">>) =>
                /\ \A a, b \in 0..MaxValue, f2 \in Forms :
                       (arg = RangeToken2(n, Dec(a), Literal(f2, b)) /\ ~Fits(b, n)) =>
                           ret.err = "VectorRangeError"
                /\ ret.err = "" => \A k \in 1..Len(ret.val) : Len(ret.val[k]) <= n

-----------------------------------------------------------------------------
(* Python dicts: the keys in insertion order, each with its value *)

DictHas(d, k) == \E i \in 1..Len(d) : d[i][1] = k

DictGet(d, k) == d[CHOOSE i \in 1..Len(d) : d[i][1] = k][2]

\* d[k] = v
DictSet(d, k, v) ==
    IF DictHas(d, k) THEN [i \in 1..Len(d) |-> IF d[i][1] = k THEN <<k, v>> ELSE d[i]]
    ELSE Append(d, <<k, v>>)

\* list(d.keys())
DictKeys(d) == [i \in 1..Len(d) |-> d[i][1]]

-----------------------------------------------------------------------------
(* The busfile as read by readline(), tell() and seek() *)

\* f.readline() at cursor p: the line there, '' at the end of the file
LineAt(p) == IF p <= Len(file) THEN file[p] ELSE <<>>

\* the cursor after f.readline() at cursor p
After(p) == IF p <= Len(file) THEN p + 1 ELSE p

\* not line.strip() or line[0] == '#'
Skip(l) == Len(Strip(l)) = 0 \/ l[1] = "#"

\* [tok.strip() for tok in line.strip().split()]
Tokens(l) == SplitWs(Strip(l))

\* tokens[0].lower() of a line, '' standing for a line without tokens
Keyword(l) == IF Len(Tokens(l)) = 0 THEN <<>> ELSE Lower(Tokens(l)[1])

NoError == [type |-> "", arg |-> <<>>]

\* the exception leaves parse_busfile
Failed(type, about) ==
    /\ pc' = "raised"
    /\ err' = [type |-> type, arg |-> about]

\* fposition = f_obj.tell(); line = f_obj.readline()
ReadNext ==
    /\ fposition' = pos
    /\ line' = LineAt(pos)
    /\ pos' = After(pos)

-----------------------------------------------------------------------------
(* busparse.read_params *)

\* a parameter that was not given is None, one that was given is its text
None == [given |-> FALSE, text |-> <<>>]

Value(text) == [given |-> TRUE, text |-> text]

\* the truth value of params[p]: None and '' are false
Truthy(v) == v.given /\ Len(v.text) > 0

required_params == <<<<"r", "i", "s", "e", "f", "a", "l", "l">>, <<"b", "i", "t", "t", "i", "m", "e">>, <<"b", "i", "t", "l", "o", "w">>, <<"b", "i", "t", "h", "i", "g", "h">>>>

valid_edge_settings == {<<"r", "i", "s", "i", "n", "g">>, <<"f", "a", "l", "l", "i", "n", "g">>}

\* params after lines 363-374
InitialParams ==
    <<<<<<"e", "d", "g", "e">>, Value(<<"r", "i", "s", "i", "n", "g">>)>>,
      <<<<"c", "l", "o", "c", "k", "d", "e", "l", "a", "y">>, None>>,
      <<<<"c", "l", "o", "c", "k", "r", "i", "s", "e", "f", "a", "l", "l">>, None>>,
      <<<<"t", "s", "u">>, None>>,
      <<<<"t", "h">>, None>>,
      <<<<"r", "i", "s", "e", "f", "a", "l", "l">>, None>>,
      <<<<"b", "i", "t", "t", "i", "m", "e">>, None>>,
      <<<<"b", "i", "t", "l", "o", "w">>, None>>,
      <<<<"b", "i", "t", "h", "i", "g", "h">>, None>>>>

\* the required parameters that evaluate as false, in the order of the check
MissingParams(p) ==
    SelectSeq(required_params, LAMBDA r : ~Truthy(DictGet(p, r)))

\* lines 363-377: the dict is set up and the first line read
read_params_begin ==
    /\ pc = "read_params"
    /\ params' = InitialParams
    /\ ReadNext
    /\ pc' = IF Skip(line') THEN "rp_skip1" ELSE "rp_loop"
    /\ UNCHANGED <<call_vars, tool_vars, file, section, sigs, vecs, signals, vectors,
                   output_signals, output_vectors, file_contents, err>>

\* lines 379-381: one turn of the loop over blank and comment lines; at the
\* end of the file readline() keeps returning '' and the loop keeps turning
read_params_skip1 ==
    /\ pc = "rp_skip1"
    /\ ReadNext
    /\ pc' = IF Skip(line') THEN "rp_skip1" ELSE "rp_loop"
    /\ UNCHANGED <<call_vars, tool_vars, file, section, params, sigs, vecs, signals, vectors,
                   output_signals, output_vectors, file_contents, err>>

\* lines 384-398: one parameter line
read_params_line ==
    /\ pc = "rp_loop"
    /\ Lower(SplitWs(line)[1]) # <<"s", "i", "g", "n", "a", "l", "s", ":">>
    /\ IF ~Contains(line, "=")
       THEN /\ Failed("AssertionError", <<"i", "m", "p", "r", "o", "p", "e", "r", "l", "y", " ", "f", "o", "r", "m", "a", "t", "t", "e", "d", " ", "p", "a", "r", "a", "m", " ", "l", "i", "n", "e">>)
            /\ UNCHANGED <<params, line, fposition, pos>>
       ELSE IF Len(Split(line, "=")) # 2
       THEN /\ Failed("ValueError", <<"t", "o", "o", " ", "m", "a", "n", "y", " ", "v", "a", "l", "u", "e", "s", " ", "t", "o", " ", "u", "n", "p", "a", "c", "k">>)
            /\ UNCHANGED <<params, line, fposition, pos>>
       ELSE LET name  == Lower(Strip(Split(line, "=")[1]))
                value == Strip(Split(line, "=")[2])
            IN  /\ params' = IF DictHas(params, name)
                             THEN DictSet(params, name, Value(value))
                             ELSE params
                /\ ReadNext
                /\ pc' = IF Skip(line') THEN "rp_skip2" ELSE "rp_loop"
                /\ UNCHANGED err
    /\ UNCHANGED <<call_vars, tool_vars, file, section, sigs, vecs, signals, vectors,
                   output_signals, output_vectors, file_contents>>

\* lines 400-402: blank and comment lines between parameter lines
read_params_skip2 ==
    /\ pc = "rp_skip2"
    /\ ReadNext
    /\ pc' = IF Skip(line') THEN "rp_skip2" ELSE "rp_loop"
    /\ UNCHANGED <<call_vars, tool_vars, file, section, params, sigs, vecs, signals, vectors,
                   output_signals, output_vectors, file_contents, err>>

\* raise ParamError(p): no ParamError is defined in the module (the class is
\* ParamMissingError), so evaluating the name raises NameError
raise_ParamError(p) == [type |-> "NameError", arg |-> <<"P", "a", "r", "a", "m", "E", "r", "r", "o", "r">>]

\* lines 406-421 and 434: the 'Signals:' line ends the parameters
read_params_end ==
    /\ pc = "rp_loop"
    /\ Lower(SplitWs(line)[1]) = <<"s", "i", "g", "n", "a", "l", "s", ":">>
    /\ pos' = fposition
    /\ IF Len(MissingParams(params)) > 0
       THEN /\ pc' = "raised"
            /\ err' = raise_ParamError(MissingParams(params)[1])
            /\ UNCHANGED file_contents
       ELSE IF DictGet(params, <<"e", "d", "g", "e">>).text \notin valid_edge_settings
       THEN /\ Failed("AssertionError", <<"I", "n", "v", "a", "l", "i", "d", " ", "e", "d", "g", "e", " ", "v", "a", "l", "u", "e">>)
            /\ UNCHANGED file_contents
       ELSE /\ pc' = "read_signals"
            /\ file_contents' = [file_contents EXCEPT !.params = params]
            /\ UNCHANGED err
    /\ UNCHANGED <<call_vars, tool_vars, file, section, line, fposition, params, sigs, vecs,
                   signals, vectors, output_signals, output_vectors>>


-----------------------------------------------------------------------------
(* busparse.read_signals *)

expand_name_open_bracket(sig) ==
    IF Contains(sig, "[") THEN expand_signal(sig) ELSE Return(<<sig>>)

\* lines 325-329: the wires one name stands for
expand_name(sig) ==
    IF Contains(sig, "[") \/ Contains(sig, "]") THEN expand_signal(sig)
    ELSE Return(<<sig>>)

\* signals.extend(individual_signals), unless a later name raises
extend_names(wires, rest) == IF rest.err # "" THEN rest ELSE Return(wires \o rest.val)

\* lines 318-329: the names of one line, buses expanded; the first name that
\* does not expand raises
RECURSIVE expand_names(_)
name_then_rest(sig, this, others) ==
    IF this.err # "" THEN [err |-> this.err, val |-> sig]
    ELSE extend_names(this.val, expand_names(others))

expand_names(sig_names) ==
    IF Len(sig_names) = 0 THEN Return(<<>>)
    ELSE name_then_rest(sig_names[1], expand_name(sig_names[1]), Tail(sig_names))

\* lines 290-291
read_signals_begin ==
    /\ pc = "read_signals"
    /\ ReadNext
    /\ pc' = IF Skip(line') THEN "rs_skip1" ELSE "rs_keyword"
    /\ UNCHANGED <<call_vars, tool_vars, file, section, params, sigs, vecs, signals, vectors,
                   output_signals, output_vectors, file_contents, err>>

\* lines 292-294
read_signals_skip1 ==
    /\ pc = "rs_skip1"
    /\ ReadNext
    /\ pc' = IF Skip(line') THEN "rs_skip1" ELSE "rs_keyword"
    /\ UNCHANGED <<call_vars, tool_vars, file, section, params, sigs, vecs, signals, vectors,
                   output_signals, output_vectors, file_contents, err>>

\* lines 299-306 (and 316): the section keyword, then the next line
read_signals_keyword ==
    /\ pc = "rs_keyword"
    /\ IF Keyword(line) \notin {<<"s", "i", "g", "n", "a", "l", "s", ":">>, <<"o", "u", "t", "p", "u", "t", "s", ":">>}
       THEN /\ Failed("AssertionError", <<"k", "e", "y", "w", "o", "r", "d", " ", "'", "S", "i", "g", "n", "a", "l", "s", ":", "'", " ", "o", "r", " ", "'", "O", "u", "t", "p", "u", "t", "s", ":", "'", " ", "e", "x", "p", "e", "c", "t", "e", "d">>)
            /\ UNCHANGED <<line, fposition, pos, sigs>>
       ELSE /\ ReadNext
            /\ sigs' = <<>>
            /\ pc' = IF Skip(line') THEN "rs_skip2" ELSE "rs_names"
            /\ UNCHANGED err
    /\ UNCHANGED <<call_vars, tool_vars, file, section, params, vecs, signals, vectors,
                   output_signals, output_vectors, file_contents>>

\* lines 308-310
read_signals_skip2 ==
    /\ pc = "rs_skip2"
    /\ ReadNext
    /\ pc' = IF Skip(line') THEN "rs_skip2" ELSE "rs_names"
    /\ UNCHANGED <<call_vars, tool_vars, file, section, params, sigs, vecs, signals, vectors,
                   output_signals, output_vectors, file_contents, err>>

\* lines 317-333 (and 341): one line of signal names, r its expansion
read_signals_names_as(r) ==
    /\ pc = "rs_names"
    /\ Keyword(line) # <<"v", "e", "c", "t", "o", "r", "s", ":">>
    /\ IF r.err # ""
       THEN /\ Failed(r.err, r.val)
            /\ UNCHANGED <<line, fposition, pos, sigs>>
       ELSE /\ sigs' = sigs \o r.val
            /\ ReadNext
            /\ pc' = IF Skip(line') THEN "rs_skip3" ELSE "rs_names"
            /\ UNCHANGED err
    /\ UNCHANGED <<call_vars, tool_vars, file, section, params, vecs, signals, vectors,
                   output_signals, output_vectors, file_contents>>

read_signals_names == read_signals_names_as(expand_names(Tokens(line)))

\* lines 335-340: blank and comment lines after a line of names; the end of
\* the file raises here
read_signals_skip3 ==
    /\ pc = "rs_skip3"
    /\ ReadNext
    /\ IF line' = <<>>
       THEN Failed("NameExpandError", <<"'", "V", "e", "c", "t", "o", "r", "s", ":", "'", " ", "k", "e", "y", "w", "o", "r", "d", " ", "n", "o", "t", " ", "r", "e", "a", "c", "h", "e", "d", " ", "b", "e", "f", "o", "r", "e", " ", "E", "O", "L">>)
       ELSE /\ pc' = IF Skip(line') THEN "rs_skip3" ELSE "rs_names"
            /\ UNCHANGED err
    /\ UNCHANGED <<call_vars, tool_vars, file, section, params, sigs, vecs, signals, vectors,
                   output_signals, output_vectors, file_contents>>

\* lines 317 and 346-348, with the caller's assignment (436 or 458): the
\* 'Vectors:' line ends the names and is left to read_vectors
read_signals_end ==
    /\ pc = "rs_names"
    /\ Keyword(line) = <<"v", "e", "c", "t", "o", "r", "s", ":">>
    /\ pos' = fposition
    /\ IF section = "in"
       THEN signals' = sigs /\ UNCHANGED output_signals
       ELSE output_signals' = sigs /\ UNCHANGED signals
    /\ pc' = "read_vectors"
    /\ UNCHANGED <<call_vars, tool_vars, file, section, line, fposition, params, sigs, vecs,
                   vectors, output_vectors, file_contents, err>>

-----------------------------------------------------------------------------
(* busparse.read_vectors *)

\* the `signals` argument of the running read_vectors
CurSignals == IF section = "in" THEN signals ELSE output_signals

\* lines 201-202: the new range appended element-wise onto the old rows
zip_rows(line_vectors, vector_range) ==
    [i \in 1..Len(line_vectors) |-> line_vectors[i] \o vector_range[i]]

\* line 207: the one row so far before every element of the range;
\* line_vectors[0] of an empty list raises IndexError, once per element
spread_rows(line_vectors, vector_range) ==
    [i \in 1..Len(vector_range) |-> line_vectors[1] \o vector_range[i]]

append_bits_first(line_vectors, bits) ==
    [i \in 1..Len(line_vectors) |->
        IF i = 1 THEN line_vectors[i] \o bits ELSE line_vectors[i]]

\* line 187: the bits of a literal token after every row so far
append_bits(line_vectors, bits) ==
    [i \in 1..Len(line_vectors) |-> line_vectors[i] \o bits]

\* lines 183-207: the tokens of one line folded into line_vectors
RECURSIVE line_rows(_, _)
literal_token(tokens, line_vectors, bits) ==
    IF Len(line_vectors) = 0 THEN line_rows(Tail(tokens), <<>>)
    ELSE IF bits.err # "" THEN [err |-> bits.err, val |-> tokens[1]]
    ELSE line_rows(Tail(tokens), append_bits(line_vectors, bits.val))

range_token(tokens, line_vectors, vector_range) ==
    IF vector_range.err # "" THEN [err |-> vector_range.err, val |-> tokens[1]]
    ELSE IF Len(line_vectors) > 1
    THEN IF Len(vector_range.val) # Len(line_vectors)
         THEN [err |-> "AssertionError",
               val |-> <<"r", "a", "n", "g", "e", "s", " ", "o", "n", " ", "s", "a", "m", "e", " ", "l", "i", "n", "e", " ", "m", "u", "s", "t", " ", "h", "a", "v", "e", " ", "s", "a", "m", "e", " ", "l", "e", "n", "g", "t", "h">>]
         ELSE line_rows(Tail(tokens), zip_rows(line_vectors, vector_range.val))
    ELSE IF Len(line_vectors) = 0 /\ Len(vector_range.val) > 0
    THEN [err |-> "IndexError", val |-> tokens[1]]
    ELSE line_rows(Tail(tokens), spread_rows(line_vectors, vector_range.val))

line_rows(tokens, line_vectors) ==
    IF Len(tokens) = 0 THEN Return(line_vectors)
    ELSE IF ~Contains(tokens[1], "[") /\ ~Contains(tokens[1], "]")
    THEN literal_token(tokens, line_vectors, bin_str(tokens[1]))
    ELSE range_token(tokens, line_vectors, expand_vector(tokens[1]))

vector_length_any(vect, signames) == TRUE

\* len(vect) == len(signals)
vector_length_ok(vect, signames) == Len(vect) = Len(signames)

\* lines 209-212: every row of the line is as wide as the list of signals
check_rows(r, signames) ==
    IF r.err # "" THEN r
    ELSE IF \E i \in 1..Len(r.val) : ~vector_length_ok(r.val[i], signames)
    THEN [err |-> "AssertionError", val |-> <<"V", "e", "c", "t", "o", "r", " ", "h", "a", "s", " ", "w", "r", "o", "n", "g", " ", "l", "e", "n", "g", "t", "h">>]
    ELSE r

\* lines 180-213: the rows one line adds to vectors
line_vectors_of(l, signames) == check_rows(line_rows(Tokens(l), <<<<>>>>), signames)

\* lines 160-178: the 'Vectors:' line, then the first line after it
read_vectors_begin ==
    /\ pc = "read_vectors"
    /\ IF Len(Tokens(LineAt(pos))) = 0
       THEN /\ Failed("IndexError", <<"t", "o", "k", "e", "n", "s", "[", "0", "]">>)
            /\ UNCHANGED <<line, fposition, pos, vecs>>
       ELSE IF Tokens(LineAt(pos))[1] # <<"V", "e", "c", "t", "o", "r", "s", ":">>
       THEN /\ Failed("AssertionError", <<"k", "e", "y", "w", "o", "r", "d", " ", "'", "V", "e", "c", "t", "o", "r", "s", ":", "'", " ", "e", "x", "p", "e", "c", "t", "e", "d">>)
            /\ UNCHANGED <<line, fposition, pos, vecs>>
       ELSE /\ fposition' = After(pos)
            /\ line' = LineAt(After(pos))
            /\ pos' = After(After(pos))
            /\ vecs' = <<>>
            /\ pc' = "rv_loop"
            /\ UNCHANGED err
    /\ UNCHANGED <<call_vars, tool_vars, file, section, params, sigs, signals, vectors,
                   output_signals, output_vectors, file_contents>>

\* the test of line 179; tokens[0] of a blank line raises IndexError
vectors_go_on == line # <<>> /\ Keyword(line) # <<"o", "u", "t", "p", "u", "t", "s", ":">>

\* lines 179-217 (and 229): one line of vectors, r the rows it gives
read_vectors_line_as(r) ==
    /\ pc = "rv_loop"
    /\ vectors_go_on
    /\ IF Len(Tokens(line)) = 0
       THEN /\ Failed("IndexError", <<"t", "o", "k", "e", "n", "s", "[", "0", "]">>)
            /\ UNCHANGED <<line, fposition, pos, vecs>>
       ELSE IF r.err # ""
       THEN /\ Failed(r.err, r.val)
            /\ UNCHANGED <<line, fposition, pos, vecs>>
       ELSE /\ vecs' = vecs \o r.val
            /\ ReadNext
            /\ pc' = IF line' # <<>> /\ Skip(line') THEN "rv_skip" ELSE "rv_loop"
            /\ UNCHANGED err
    /\ UNCHANGED <<call_vars, tool_vars, file, section, params, sigs, signals, vectors,
                   output_signals, output_vectors, file_contents>>

read_vectors_line == read_vectors_line_as(line_vectors_of(line, CurSignals))

\* lines 220-228: blank and comment lines between vector lines; the end of the
\* file breaks out of the loop
read_vectors_skip ==
    /\ pc = "rv_skip"
    /\ ReadNext
    /\ pc' = IF line' # <<>> /\ Skip(line') THEN "rv_skip" ELSE "rv_loop"
    /\ UNCHANGED <<call_vars, tool_vars, file, section, params, sigs, vecs, signals, vectors,
                   output_signals, output_vectors, file_contents, err>>

\* lines 179 and 231-232, with the caller's assignment (438 or 460): the end
\* of the file or an 'Outputs:' line ends the vectors
read_vectors_end ==
    /\ pc = "rv_loop"
    /\ ~vectors_go_on
    /\ pos' = fposition
    /\ IF section = "in"
       THEN vectors' = vecs /\ pc' = "inputs" /\ UNCHANGED output_vectors
       ELSE output_vectors' = vecs /\ pc' = "outputs" /\ UNCHANGED vectors
    /\ UNCHANGED <<call_vars, tool_vars, file, section, line, fposition, params, sigs, vecs,
                   signals, output_signals, file_contents, err>>

-----------------------------------------------------------------------------
(* busparse.parse_busfile *)

\* for (sig, bit) in zip(signals, vect): d[sig] += bit
RECURSIVE add_bits(_, _, _)
add_bits(d, sigs_, vect) ==
    IF Len(sigs_) = 0 \/ Len(vect) = 0 THEN d
    ELSE add_bits(DictSet(d, sigs_[1], DictGet(d, sigs_[1]) \o <<vect[1]>>),
                  Tail(sigs_), Tail(vect))

\* for vect in vectors: ...
RECURSIVE add_vectors(_, _, _)
add_vectors(d, sigs_, vects) ==
    IF Len(vects) = 0 THEN d
    ELSE add_vectors(add_bits(d, sigs_, vects[1]), sigs_, Tail(vects))

\* for sig in signals: d[sig] = ''
RECURSIVE empty_signals(_, _)
empty_signals(d, sigs_) ==
    IF Len(sigs_) = 0 THEN d
    ELSE empty_signals(DictSet(d, sigs_[1], <<>>), Tail(sigs_))

\* lines 440-445 and 461-465: the dict of bit strings by signal name
signal_dict(sigs_, vects) == add_vectors(empty_signals(<<>>, sigs_), sigs_, vects)

\* lines 452 and 455: 'th' in params.keys(), 'tsu' in params.keys()
setup_hold_given(p) == DictHas(p, <<"t", "h">>) /\ DictHas(p, <<"t", "s", "u">>)

\* lines 440-457 and 475-479: the input signals are filled in and the line
\* after the input vectors decides whether an output section follows
parse_busfile_inputs ==
    /\ pc = "inputs"
    /\ line' = LineAt(pos)
    /\ pos' = After(pos)
    /\ IF StartsWith(Lower(line'), <<"o", "u", "t", "p", "u", "t", "s", ":">>)
       THEN IF ~setup_hold_given(file_contents.params)
            THEN /\ Failed("AssertionError", <<"n", "o", " ", "s", "e", "t", "u", "p", " ", "o", "r", " ", "h", "o", "l", "d", " ", "t", "i", "m", "e", " ", "w", "a", "s", " ", "s", "p", "e", "c", "i", "f", "i", "e", "d">>)
                 /\ UNCHANGED <<section, file_contents>>
            ELSE /\ pc' = "read_signals"
                 /\ section' = "out"
                 /\ file_contents' =
                        [file_contents EXCEPT !.signals = signal_dict(signals, vectors)]
                 /\ UNCHANGED err
       ELSE /\ pc' = "done"
            /\ file_contents' =
                   [file_contents EXCEPT !.signals = signal_dict(signals, vectors)]
            /\ UNCHANGED <<section, err>>
    /\ UNCHANGED <<call_vars, tool_vars, file, fposition, params, sigs, vecs, signals, vectors,
                   output_signals, output_vectors>>

\* lines 468-472: the numbers of vectors, read off the first signal of each dict
n_vectors(d) == Len(d[1][2])

\* lines 461-474 and 486: the output signals are filled in (outs) and their
\* number of vectors compared with the inputs'
parse_busfile_outputs_as(outs) ==
    /\ pc = "outputs"
    /\ IF Len(file_contents.signals) = 0 \/ Len(outs) = 0
       THEN /\ Failed("IndexError", <<"l", "i", "s", "t", " ", "i", "n", "d", "e", "x", " ", "o", "u", "t", " ", "o", "f", " ", "r", "a", "n", "g", "e">>)
            /\ UNCHANGED file_contents
       ELSE IF n_vectors(file_contents.signals) # n_vectors(outs)
       THEN /\ Failed("AssertionError", <<"N", "u", "m", "b", "e", "r", " ", "o", "f", " ", "o", "u", "t", "p", "u", "t", " ", "v", "e", "c", "t", "o", "r", "s", " ", "d", "o", "e", "s", " ", "n", "o", "t", " ", "m", "a", "t", "c", "h">>)
            /\ UNCHANGED file_contents
       ELSE /\ pc' = "done"
            /\ file_contents' = [file_contents EXCEPT !.outputs = outs]
            /\ UNCHANGED err
    /\ UNCHANGED <<call_vars, tool_vars, file, pos, section, line, fposition, params, sigs, vecs,
                   signals, vectors, output_signals, output_vectors>>

parse_busfile_outputs ==
    parse_busfile_outputs_as(signal_dict(output_signals, output_vectors))

-----------------------------------------------------------------------------
(* The busfiles parse_busfile is run on *)

Line(text) == text \o <<"\n">>

\* the tokens of a line, one space between them
RECURSIVE Join(_)
Join(tokens) ==
    IF Len(tokens) = 0 THEN <<>>
    ELSE IF Len(tokens) = 1 THEN tokens[1]
    ELSE tokens[1] \o <<" ">> \o Join(Tail(tokens))

\* the sequences of at most n elements of a set
RECURSIVE SeqsUpTo(_, _)
SeqsUpTo(S, n) ==
    IF n = 0 THEN {<<>>}
    ELSE SeqsUpTo(S, n - 1) \cup
         {Append(s, x) : s \in {t \in SeqsUpTo(S, n - 1) : Len(t) = n - 1}, x \in S}

\* the parameter lines: the required ones, one of them left out or left empty
RequiredLines(omit) ==
    SelectSeq(<<Line(<<"r", "i", "s", "e", "f", "a", "l", "l", "=", "2", "0", "0", "p">>), Line(<<"b", "i", "t", "t", "i", "m", "e", "=", "1", "n">>),
                Line(<<"b", "i", "t", "l", "o", "w", "=", "0">>), Line(<<"b", "i", "t", "h", "i", "g", "h", "=", "5">>)>>,
              LAMBDA l : ~StartsWith(l, omit \o <<"=">>))

Omissions == {<<>>, <<"r", "i", "s", "e", "f", "a", "l", "l">>, <<"b", "i", "t", "t", "i", "m", "e">>, <<"b", "i", "t", "l", "o", "w">>, <<"b", "i", "t", "h", "i", "g", "h">>}

SetupHoldLines ==
    {<<>>, <<Line(<<"t", "s", "u", "=", "1", "0", "0", "p">>)>>, <<Line(<<"t", "h", "=", "1", "0", "0", "p">>)>>,
     <<Line(<<"t", "s", "u", "=", "1", "0", "0", "p">>), Line(<<"t", "h", "=", "1", "0", "0", "p">>)>>}

OtherParamLines ==
    {<<>>,
     <<Line(<<"e", "d", "g", "e", "=", "f", "a", "l", "l", "i", "n", "g">>)>>,
     <<Line(<<"e", "d", "g", "e", "=", "n", "o", "n", "e">>)>>,
     <<Line(<<"E", "d", "g", "e", " ", "=", " ", "R", "I", "S", "I", "N", "G">>)>>,
     <<Line(<<"c", "l", "o", "c", "k", "d", "e", "l", "a", "y", "=", "2", "5", "0", "p">>), Line(<<"c", "l", "o", "c", "k", "r", "i", "s", "e", "f", "a", "l", "l", "=", "1", "0", "0", "p">>)>>,
     <<Line(<<"b", "i", "t", "h", "i", "g", "h", "=">>)>>,
     <<Line(<<"s", "p", "e", "e", "d", "=", "9">>)>>,
     <<Line(<<"b", "i", "t", "h", "i", "g", "h">>)>>,
     <<Line(<<"b", "i", "t", "h", "i", "g", "h", "=", "5", "=", "5">>)>>}

ParamSections ==
    {RequiredLines(o) \o sh \o other :
        o \in Omissions, sh \in SetupHoldLines, other \in OtherParamLines}

FullParams ==
    RequiredLines(<<>>) \o <<Line(<<"t", "s", "u", "=", "1", "0", "0", "p">>), Line(<<"t", "h", "=", "1", "0", "0", "p">>)>>

\* Signals: / names / Vectors: / rows
InputSection(names, rows) ==
    <<Line(<<"S", "i", "g", "n", "a", "l", "s", ":">>), Line(names), Line(<<"V", "e", "c", "t", "o", "r", "s", ":">>)>> \o rows

\* Outputs: / Signals: / names / Vectors: / rows
OutputSection(names, rows) ==
    <<Line(<<"O", "u", "t", "p", "u", "t", "s", ":">>), Line(<<"S", "i", "g", "n", "a", "l", "s", ":">>), Line(names), Line(<<"V", "e", "c", "t", "o", "r", "s", ":">>)>> \o rows

\* the parameter section varies
ParamBusfiles ==
    {p \o InputSection(<<"a", " ", "b">>, <<Line(<<"0", "1">>)>>) \o out :
        p \in ParamSections,
        out \in {<<>>, OutputSection(<<"y">>, <<Line(<<"1">>)>>)}}

MaxTokens == 3

VectorTokens ==
    {<<"0", "1">>, <<"[", "1", "]", "(", "1", ",", "1", ")">>, <<"[", "1", "]", "(", "0", ",", "1", ")">>, <<"[", "2", "]", "(", "0", ",", "2", ")">>, <<"[", "2", "]", "(", "0", ",", "-", "1", ",", "1", ")">>}

VectorLines == {Line(Join(t)) : t \in SeqsUpTo(VectorTokens, MaxTokens) \ {<<>>}}

\* one vector line of any make under signal lines of one to four wires
VectorBusfiles ==
    {FullParams \o InputSection(names, <<l>>) :
        names \in {<<"a">>, <<"a", " ", "b">>, <<"a", " ", "b", "[", "1", ":", "0", "]">>, <<"b", "[", "3", ":", "0", "]">>}, l \in VectorLines}

MaxRows == 2

RowLines == {Line(<<"0", "1">>), Line(<<"[", "1", "]", "(", "0", ",", "1", ")">>)}

RowSeqs == SeqsUpTo(RowLines, MaxRows)

\* input and output sections of every pair of row counts, with signals named
\* once or twice
OutputBusfiles ==
    {FullParams \o InputSection(names, rows) \o out :
        names \in {<<"a">>, <<"a", " ", "a">>, <<"a", " ", "b">>}, rows \in RowSeqs,
        out \in {<<>>} \cup
                {OutputSection(onames, orows) :
                    onames \in {<<"y">>, <<"y", " ", "y">>, <<"y", " ", "z">>}, orows \in RowSeqs}}

BaseBusfile ==
    FullParams \o InputSection(<<"a", " ", "b">>, <<Line(<<"0", "1">>), Line(<<"1", "0">>)>>)
               \o OutputSection(<<"y">>, <<Line(<<"1">>), Line(<<"0">>)>>)

\* the file with one more line before its line k (after the last for k = Len + 1)
Insert(f, k, l) == SubSeq(f, 1, k - 1) \o <<l>> \o SubSeq(f, k, Len(f))

\* a blank line or a comment line anywhere, and files that end early
LayoutBusfiles ==
    {Insert(BaseBusfile, k, l) :
        k \in 1..(Len(BaseBusfile) + 1), l \in {Line(<<>>), Line(<<"#", " ", "c", "o", "m", "m", "e", "n", "t">>)}}
    \cup {SubSeq(BaseBusfile, 1, k) : k \in 0..Len(BaseBusfile)}

\* Outputs: / names / rows, with or without Vectors: above the rows
NamedOutputSection(keyword, names, vectors_line, rows) ==
    <<Line(keyword), Line(names)>> \o vectors_line \o rows

\* busfiles whose output names come right after the 'Outputs:' line
NamedOutputBusfiles ==
    {FullParams \o InputSection(<<"a", " ", "b">>, <<Line(<<"0", "1">>), Line(<<"1", "0">>)>>)
                \o NamedOutputSection(keyword, out[1], vectors_line, out[2]) :
        keyword \in {<<"O", "u", "t", "p", "u", "t", "s", ":">>, <<"O", "U", "T", "P", "U", "T", "S", ":">>},
        out \in {<<<<"y">>, <<Line(<<"1">>), Line(<<"0">>)>>>>,
                 <<<<"y", " ", "z">>, <<Line(<<"1", "0">>), Line(<<"0", "1">>)>>>>},
        vectors_line \in {<<>>, <<Line(<<"V", "e", "c", "t", "o", "r", "s", ":">>)>>}}

Busfiles ==
    ParamBusfiles \cup VectorBusfiles \cup OutputBusfiles \cup LayoutBusfiles
    \cup NamedOutputBusfiles

-----------------------------------------------------------------------------
(* parse_busfile on one busfile *)

Init ==
    /\ fn = "parse_busfile" /\ arg = <<>> /\ ret = NotCalled
    /\ file \in Busfiles
    /\ pos = 1
    /\ pc = "read_params"
    /\ section = "in"
    /\ line = <<>>
    /\ fposition = 1
    /\ params = <<>>
    /\ sigs = <<>> /\ vecs = <<>>
    /\ signals = <<>> /\ vectors = <<>>
    /\ output_signals = <<>> /\ output_vectors = <<>>
    /\ file_contents = [params |-> <<>>, signals |-> <<>>, outputs |-> <<>>]
    /\ err = NoError
    /\ ToolsIdle

Next ==
    \/ read_params_begin
    \/ read_params_skip1
    \/ read_params_line
    \/ read_params_skip2
    \/ read_params_end
    \/ read_signals_begin
    \/ read_signals_skip1
    \/ read_signals_keyword
    \/ read_signals_skip2
    \/ read_signals_names
    \/ read_signals_skip3
    \/ read_signals_end
    \/ read_vectors_begin
    \/ read_vectors_line
    \/ read_vectors_skip
    \/ read_vectors_end
    \/ parse_busfile_inputs
    \/ parse_busfile_outputs

Spec == Init /\ [][Next]_vars


-----------------------------------------------------------------------------
(* Properties of read_vectors, read_params and parse_busfile *)

IsRangeToken(tok) == Contains(tok, "[") \/ Contains(tok, "]")

\* the range tokens of a line, in order
RangeTokensOn(l) == SelectSeq(Tokens(l), IsRangeToken)

\* every range token of the line expands
RangesExpand(l) ==
    \A i \in 1..Len(RangeTokensOn(l)) : expand_vector(RangeTokensOn(l)[i]).err = ""

\* two range tokens of the line expand to different numbers of rows
RangesDiffer(l) ==
    \E i, j \in 1..Len(RangeTokensOn(l)) :
        Len(expand_vector(RangeTokensOn(l)[i]).val)
            # Len(expand_vector(RangeTokensOn(l)[j]).val)

RangeLengthError ==
    [type |-> "AssertionError",
     arg |-> <<"r", "a", "n", "g", "e", "s", " ", "o", "n", " ", "s", "a", "m", "e", " ", "l", "i", "n", "e", " ", "m", "u", "s", "t", " ", "h", "a", "v", "e", " ", "s", "a", "m", "e", " ", "l", "e", "n", "g", "t", "h">>]

\* C6: a vector line with two or more range tokens that do not all expand to
\* the same number of rows makes read_vectors fail with the range-length
\* error, whatever the two lengths are, a first range of one row included.
C6_RangeLengthsChecked ==
    [][(/\ pc = "rv_loop" /\ vectors_go_on
        /\ Len(RangeTokensOn(line)) >= 2
        /\ RangesExpand(line) /\ RangesDiffer(line))
       => (pc' = "raised" /\ err' = RangeLengthError)]_vars

\* every row is as wide as the list of signal names
RowsFit(rows, names) == \A i \in 1..Len(rows) : Len(rows[i]) = Len(names)

\* the failure of the width check of lines 209-212, the spec's VectorLengthError
VectorLengthError ==
    [type |-> "AssertionError", arg |-> <<"V", "e", "c", "t", "o", "r", " ", "h", "a", "s", " ", "w", "r", "o", "n", "g", " ", "l", "e", "n", "g", "t", "h">>]

\* the tokens of the line assemble into rows, one of them of the wrong width
WrongWidthLine ==
    /\ pc = "rv_loop" /\ vectors_go_on /\ Len(Tokens(line)) > 0
    /\ line_rows(Tokens(line), <<<<>>>>).err = ""
    /\ ~RowsFit(line_rows(Tokens(line), <<<<>>>>).val, CurSignals)

\* C7: every row read_vectors assembles is as wide as the expanded signal
\* names are many, in the rows it collects and in the rows it returns for the
\* input and for the output section; a line that assembles a row of another
\* width makes the parse fail with the width error, and no vectors come back.
C7_RowWidth ==
    /\ [](/\ RowsFit(vectors, signals)
          /\ RowsFit(output_vectors, output_signals)
          /\ pc \in {"rv_loop", "rv_skip"} => RowsFit(vecs, CurSignals))
    /\ [][WrongWidthLine
           => (/\ pc' = "raised" /\ err' = VectorLengthError
               /\ UNCHANGED <<vectors, output_vectors, file_contents>>)]_vars

\* a second vector line of the wrong width, after a first that was accepted
C7_Witness == pc = "raised" /\ err = VectorLengthError /\ Len(vecs) > 0

\* the parse stopped at the check of the required parameters
RequiredCheckFailed ==
    /\ pc = "raised" /\ section = "in"
    /\ Keyword(line) = <<"s", "i", "g", "n", "a", "l", "s", ":">>
    /\ Len(MissingParams(params)) > 0

\* C8: a busfile whose parameters leave out one of risefall, bittime, bitlow,
\* bithigh fails with ParamMissingError naming the parameter left out, and no
\* parse returns parameters with a required one unset.
C8_MissingParamNamed ==
    /\ RequiredCheckFailed
        => err = [type |-> "ParamMissingError", arg |-> MissingParams(params)[1]]
    /\ pc = "done" => Len(MissingParams(file_contents.params)) = 0

Given(p, name) == DictHas(p, name) /\ DictGet(p, name).given

\* C9: no parse of a busfile with an output section returns its outputs unless
\* the parameters set both tsu and th.
C9_OutputsNeedSetupHold ==
    (pc = "done" /\ section = "out")
        => (/\ Given(file_contents.params, <<"t", "s", "u">>)
            /\ Given(file_contents.params, <<"t", "h">>))

\* C10: no parse returns outputs whose number of expanded vector rows differs
\* from the number of expanded input vector rows.
C10_RowCountsAgree ==
    (pc = "done" /\ section = "out") => Len(output_vectors) = Len(vectors)

\* every signal of the dict has one bit for each of the rows
OneBitPerRow(d, rows) == \A i \in 1..Len(d) : Len(d[i][2]) = Len(rows)

\* C11: after every successful parse each input signal's bit sequence is as
\* long as the expanded input vector rows are many, and each output signal's
\* as long as the output rows are many, also when the signal line names a
\* signal twice.
C11_EqualLengths ==
    pc = "done"
        => (/\ OneBitPerRow(file_contents.signals, vectors)
            /\ section = "out" => OneBitPerRow(file_contents.outputs, output_vectors))

-----------------------------------------------------------------------------
(* decimal.Decimal: exact decimal numbers, coefficient c and exponent e for  *)
(* the value c * 10^e                                                        *)

Decimal(c, e) == [c |-> c, e |-> e]

Min(a, b) == IF a <= b THEN a ELSE b

\* the coefficient of x at the exponent e <= x.e
Scaled(x, e) == IF x.c = 0 THEN 0 ELSE x.c * 10 ^ (x.e - e)

\* x + y, x - y, x * y
DAdd(x, y) == Decimal(Scaled(x, Min(x.e, y.e)) + Scaled(y, Min(x.e, y.e)), Min(x.e, y.e))

DSub(x, y) == Decimal(Scaled(x, Min(x.e, y.e)) - Scaled(y, Min(x.e, y.e)), Min(x.e, y.e))

DMul(x, y) == Decimal(x.c * y.c, x.e + y.e)

\* x == y, x < y: by value, whatever the exponents
DEq(x, y) == Scaled(x, Min(x.e, y.e)) = Scaled(y, Min(x.e, y.e))

DLess(x, y) == Scaled(x, Min(x.e, y.e)) < Scaled(y, Min(x.e, y.e))

\* abs(x)
DAbs(x) == IF x.c < 0 THEN Decimal(0 - x.c, x.e) ELSE x

\* Decimal(text): [sign] digits [. digits] [e [sign] digits]
decimal_digits(q, negative, exponent) ==
    IF ~IsDigits(q[1] \o q[3], 10) THEN Raise("InvalidOperation")
    ELSE Return(Decimal((IF negative THEN -1 ELSE 1) * DigitsVal(q[1] \o q[3], 10),
                        exponent - Len(q[3])))

decimal_mantissa(m, exponent) ==
    decimal_digits(Partition(Unsigned(m), "."), Len(m) > 0 /\ m[1] = "-", exponent)

decimal_parts(p) ==
    IF p[2] = <<>> THEN decimal_mantissa(p[1], 0)
    ELSE IF ~IsPyInt(p[3], 10) THEN Raise("InvalidOperation")
    ELSE decimal_mantissa(p[1], PyInt(p[3], 10))

decimal_of(text) == decimal_parts(Partition(Lower(text), "e"))

-----------------------------------------------------------------------------
(* unit.unit: engineering notation to Decimal.  The module unit is not part  *)
(* of the sources at hand; it is modelled after its description: a numeric   *)
(* prefix, then an optional case-insensitive suffix with a fixed multiplier. *)

NumericChars == {"0", "1", "2", "3", "4", "5", "6", "7", "8", "9", "+", "-", ".", "e"}

\* the length of the numeric prefix of s
RECURSIVE NumericLen(_)
NumericLen(s) ==
    IF Len(s) > 0 /\ s[1] \in NumericChars THEN 1 + NumericLen(Tail(s)) ELSE 0

\* the multiplier of the suffix a text goes on with, 1 when it is none of them
Multiplier(rest) ==
    IF StartsWith(rest, <<"t">>) THEN Decimal(1, 12)
    ELSE IF StartsWith(rest, <<"g">>) THEN Decimal(1, 9)
    ELSE IF StartsWith(rest, <<"m", "e", "g">>) THEN Decimal(1, 6)
    ELSE IF StartsWith(rest, <<"x">>) THEN Decimal(1, 6)
    ELSE IF StartsWith(rest, <<"k">>) THEN Decimal(1, 3)
    ELSE IF StartsWith(rest, <<"m", "i", "l">>) THEN Decimal(254, -7)
    ELSE IF StartsWith(rest, <<"m">>) THEN Decimal(1, -3)
    ELSE IF StartsWith(rest, <<"u">>) THEN Decimal(1, -6)
    ELSE IF StartsWith(rest, <<"n">>) THEN Decimal(1, -9)
    ELSE IF StartsWith(rest, <<"p">>) THEN Decimal(1, -12)
    ELSE IF StartsWith(rest, <<"f">>) THEN Decimal(1, -15)
    ELSE Decimal(1, 0)

unit_times(number, multiplier) ==
    IF number.err # "" THEN Raise("UnitParseError")
    ELSE Return(DMul(number.val, multiplier))

unit_text(s) ==
    unit_times(decimal_of(SubSeq(s, 1, NumericLen(s))), Multiplier(From(s, NumericLen(s))))

\* unit(v) for a value v of the params dict: the text of a parameter, or None,
\* which is no text and has no numeric prefix
unit(v) == IF ~v.given THEN Raise("UnitParseError") ELSE unit_text(Lower(v.text))

-----------------------------------------------------------------------------
(* bus2pwl.gen_signal *)

\* one '+ time voltage' line of a PWL source
Point(t, v) == [t |-> t, v |-> v]

vbit_low(bit, hi, lo) == lo

\* line 31: vbit
vbit(bit, hi, lo) == IF bit = "1" THEN hi ELSE lo

t_trans_at_once(t, trf) == t

\* line 45: t_trans = t + trf
t_trans(t, trf) == DAdd(t, trf)

t_reference_kept(t, trf) == t

\* line 52: t += trf, the time reference becomes the start of the new level
t_reference(t, trf) == DAdd(t, trf)

\* lines 39-54: the bits after the first, t the time cursor before the bit
RECURSIVE gen_bits(_, _, _, _, _, _, _, _)
gen_bit(bits, t, lastbit, points, hi, lo, trf, bittime) ==
    IF bits[1] # lastbit
    THEN gen_bits(Tail(bits), t_reference(t, trf), bits[1],
                  points \o <<Point(t, vbit(lastbit, hi, lo)),
                              Point(t_trans(t, trf), vbit(bits[1], hi, lo))>>,
                  hi, lo, trf, bittime)
    ELSE gen_bits(Tail(bits), t, lastbit, points, hi, lo, trf, bittime)

gen_bits(bits, t, lastbit, points, hi, lo, trf, bittime) ==
    IF Len(bits) = 0 THEN points
    ELSE gen_bit(bits, DAdd(t, bittime), lastbit, points, hi, lo, trf, bittime)

\* lines 19 and 33-56: the source of a signal, bittime the effective bit time
gen_points(signal, vector, hi, lo, trf, bittime) ==
    IF Len(vector) = 0 THEN Raise("IndexError")
    ELSE Return([name |-> signal,
                 points |-> gen_bits(Tail(vector), Decimal(0, -1), vector[1],
                                     <<Point(Decimal(0, 0), vbit(vector[1], hi, lo))>>,
                                     hi, lo, trf, bittime)])

\* lines 21-28: the parameters through unit(), then the effective bit time
gen_units(signal, vector, hi, lo, trf, bittime, clockrisefall) ==
    IF hi.err # "" THEN hi
    ELSE IF lo.err # "" THEN lo
    ELSE IF trf.err # "" THEN trf
    ELSE IF bittime.err # "" THEN bittime
    ELSE IF clockrisefall.err # "" THEN clockrisefall
    ELSE gen_points(signal, vector, hi.val, lo.val, trf.val,
                    DAdd(bittime.val,
                         DAdd(clockrisefall.val, DSub(clockrisefall.val, trf.val))))

gen_signal(bus_params, signal, vector) ==
    gen_units(signal, vector,
              unit(DictGet(bus_params, <<"b", "i", "t", "h", "i", "g", "h">>)),
              unit(DictGet(bus_params, <<"b", "i", "t", "l", "o", "w">>)),
              unit(DictGet(bus_params, <<"r", "i", "s", "e", "f", "a", "l", "l">>)),
              unit(DictGet(bus_params, <<"b", "i", "t", "t", "i", "m", "e">>)),
              unit(DictGet(bus_params, <<"c", "l", "o", "c", "k", "r", "i", "s", "e", "f", "a", "l", "l">>)))

-----------------------------------------------------------------------------
(* The parameter sets and bit sequences gen_signal and gen_clock are called  *)
(* on: dicts as read_params returns them                                     *)

\* params with the given values for some of its keys
RECURSIVE WithParams(_, _)
WithParams(p, settings) ==
    IF Len(settings) = 0 THEN p
    ELSE WithParams(DictSet(p, settings[1][1], settings[1][2]), Tail(settings))

Texts(S) == {Value(t) : t \in S}

BitHighs == Texts({<<"5">>, <<"3", ".", "3">>})

BitLows == Texts({<<"0">>, <<"1">>})

RiseFalls == Texts({<<"2", "0", "0", "p">>, <<"0", ".", "1", "n">>, <<"0">>})

BitTimes == Texts({<<"1", "n">>, <<"2", "0", "0", "0", "P">>})

ClockRiseFalls == Texts({<<"1", "0", "0", "p">>, <<"2", "0", "0", "p">>}) \cup {None}

ClockDelays == Texts({<<"2", "5", "0", "p">>, <<"0">>}) \cup {None}

Edges == Texts({<<"r", "i", "s", "i", "n", "g">>, <<"f", "a", "l", "l", "i", "n", "g">>})

TimingParams ==
    {WithParams(InitialParams,
                <<<<<<"b", "i", "t", "h", "i", "g", "h">>, hi>>, <<<<"b", "i", "t", "l", "o", "w">>, lo>>, <<<<"r", "i", "s", "e", "f", "a", "l", "l">>, trf>>,
                  <<<<"b", "i", "t", "t", "i", "m", "e">>, bt>>, <<<<"c", "l", "o", "c", "k", "r", "i", "s", "e", "f", "a", "l", "l">>, crf>>>>) :
        hi \in BitHighs, lo \in BitLows, trf \in RiseFalls, bt \in BitTimes,
        crf \in ClockRiseFalls}

MaxVector == 4

\* the bit sequences of at most MaxVector bits
BitVectors == SeqsUpTo({"0", "1"}, MaxVector)

InitGenSignal ==
    /\ fn = "gen_signal"
    /\ arg \in {[bus_params |-> p, signal |-> <<"a">>, vector |-> v] :
                    p \in TimingParams, v \in BitVectors}
    /\ ret = NotCalled
    /\ ParserIdle /\ ToolsIdle

CallGenSignal ==
    /\ fn = "gen_signal" /\ ret = NotCalled
    /\ ret' = gen_signal(arg.bus_params, arg.signal, arg.vector)
    /\ UNCHANGED <<fn, arg, parser_vars, tool_vars>>

SpecGenSignal == InitGenSignal /\ [][CallGenSignal]_vars

-----------------------------------------------------------------------------
(* Properties of gen_signal *)

\* a parameter of the call, through unit()
ArgUnit(name) == unit(DictGet(arg.bus_params, name)).val

ArgGiven(name) == DictGet(arg.bus_params, name).given

\* P = bittime + clockrisefall + (clockrisefall - risefall)
EffectivePeriod ==
    DSub(DAdd(ArgUnit(<<"b", "i", "t", "t", "i", "m", "e">>), DMul(Decimal(2, 0), ArgUnit(<<"c", "l", "o", "c", "k", "r", "i", "s", "e", "f", "a", "l", "l">>))),
         ArgUnit(<<"r", "i", "s", "e", "f", "a", "l", "l">>))

\* '1' is bithigh, '0' is bitlow
Level(bit) == IF bit = "1" THEN ArgUnit(<<"b", "i", "t", "h", "i", "g", "h">>) ELSE ArgUnit(<<"b", "i", "t", "l", "o", "w">>)

\* the positions (from 1) of the bits that differ from the bit before them
TransitionsOf(v) == {i \in 2..Len(v) : v[i] # v[i - 1]}

\* the point is at time t with voltage v
PointAt(p, t, v) == DEq(p.t, t) /\ DEq(p.v, v)

Zero == Decimal(0, 0)

\* C12: gen_signal on a constant bit sequence emits exactly one breakpoint, at
\* t = 0; on a sequence with a single transition at bit index k it emits the
\* initial breakpoint and exactly two more, at k*P with the previous voltage
\* and at k*P + risefall with the new one, P the effective period.
C12_ConstantAndSingleTransition ==
    (Called("gen_signal") /\ Len(arg.vector) > 0 /\ ArgGiven(<<"c", "l", "o", "c", "k", "r", "i", "s", "e", "f", "a", "l", "l">>))
        => (/\ ret.err = ""
            /\ PointAt(ret.val.points[1], Zero, Level(arg.vector[1]))
            /\ TransitionsOf(arg.vector) = {} => Len(ret.val.points) = 1
            /\ \A i \in 2..Len(arg.vector) :
                 TransitionsOf(arg.vector) = {i}
                    => (/\ Len(ret.val.points) = 3
                        /\ PointAt(ret.val.points[2],
                                   DMul(Decimal(i - 1, 0), EffectivePeriod),
                                   Level(arg.vector[i - 1]))
                        /\ PointAt(ret.val.points[3],
                                   DAdd(DMul(Decimal(i - 1, 0), EffectivePeriod),
                                        ArgUnit(<<"r", "i", "s", "e", "f", "a", "l", "l">>)),
                                   Level(arg.vector[i]))))

\* the example of the specification: "0011" with bitlow=0, bithigh=5,
\* risefall=200p, bittime=1n
C12_Witness ==
    /\ Called("gen_signal") /\ ret.err = ""
    /\ arg.vector = <<"0", "0", "1", "1">>
    /\ DictGet(arg.bus_params, <<"b", "i", "t", "h", "i", "g", "h">>).text = <<"5">>
    /\ DictGet(arg.bus_params, <<"b", "i", "t", "l", "o", "w">>).text = <<"0">>
    /\ DictGet(arg.bus_params, <<"r", "i", "s", "e", "f", "a", "l", "l">>).text = <<"2", "0", "0", "p">>
    /\ DictGet(arg.bus_params, <<"b", "i", "t", "t", "i", "m", "e">>).text = <<"1", "n">>
    /\ Len(ret.val.points) = 3
    /\ DEq(ret.val.points[3].v, Decimal(5, 0))

\* the transitions of v in order
RECURSIVE TransitionSeq(_, _)
TransitionSeq(v, i) ==
    IF i > Len(v) THEN <<>>
    ELSE (IF v[i] # v[i - 1] THEN <<i>> ELSE <<>>) \o TransitionSeq(v, i + 1)

\* C13: for every non-empty bit sequence and parameters with risefall > 0 and
\* effective period > 0, the breakpoints of gen_signal have strictly increasing
\* times, the first at t = 0; every voltage is bithigh or bitlow, and the two
\* breakpoints of a transition carry the previous bit's level, then the new
\* bit's level.
C13_IncreasingTimes ==
    (/\ Called("gen_signal") /\ ret.err = ""
     /\ DLess(Zero, ArgUnit(<<"r", "i", "s", "e", "f", "a", "l", "l">>)) /\ DLess(Zero, EffectivePeriod))
        => (/\ DEq(ret.val.points[1].t, Zero)
            /\ \A k \in 2..Len(ret.val.points) :
                 DLess(ret.val.points[k - 1].t, ret.val.points[k].t)
            /\ \A k \in 1..Len(ret.val.points) :
                 \/ DEq(ret.val.points[k].v, ArgUnit(<<"b", "i", "t", "h", "i", "g", "h">>))
                 \/ DEq(ret.val.points[k].v, ArgUnit(<<"b", "i", "t", "l", "o", "w">>))
            /\ Len(ret.val.points) = 1 + 2 * Len(TransitionSeq(arg.vector, 2))
            /\ \A j \in 1..Len(TransitionSeq(arg.vector, 2)) :
                 /\ DEq(ret.val.points[2 * j].v,
                        Level(arg.vector[TransitionSeq(arg.vector, 2)[j] - 1]))
                 /\ DEq(ret.val.points[2 * j + 1].v,
                        Level(arg.vector[TransitionSeq(arg.vector, 2)[j]])))

\* a sequence with two transitions
C13_Witness ==
    /\ Called("gen_signal") /\ ret.err = ""
    /\ DLess(Zero, ArgUnit(<<"r", "i", "s", "e", "f", "a", "l", "l">>)) /\ DLess(Zero, EffectivePeriod)
    /\ Len(ret.val.points) = 5

-----------------------------------------------------------------------------
(* bus2pwl.gen_clock *)

\* what '%s' shows of a value of bus_params: the text of a parameter, None,
\* or a Decimal that was written back into the dict
TextField(text) == [kind |-> "text", text |-> text, d |-> Decimal(0, 0)]

NoneField == [kind |-> "none", text |-> <<>>, d |-> Decimal(0, 0)]

DecimalField(d) == [kind |-> "decimal", text |-> <<>>, d |-> d]

Field(v) == IF v.given THEN TextField(v.text) ELSE NoneField

\* lines 74-79: the local clockdelay
local_clockdelay(bus_params, bittime) ==
    IF Truthy(DictGet(bus_params, <<"c", "l", "o", "c", "k", "d", "e", "l", "a", "y">>))
    THEN Field(DictGet(bus_params, <<"c", "l", "o", "c", "k", "d", "e", "l", "a", "y">>))
    ELSE DecimalField(DMul(Decimal(25, -2), bittime))

\* lines 83 and 86: the fields of PULSE(...), all read from bus_params; the
\* local clockdelay is not among them
pulse_fields(bus_params, first, second, clockdelay, clockhigh, clockperiod) ==
    <<Field(DictGet(bus_params, first)), Field(DictGet(bus_params, second)),
      Field(DictGet(bus_params, <<"c", "l", "o", "c", "k", "d", "e", "l", "a", "y">>)),
      Field(DictGet(bus_params, <<"c", "l", "o", "c", "k", "r", "i", "s", "e", "f", "a", "l", "l">>)),
      Field(DictGet(bus_params, <<"c", "l", "o", "c", "k", "r", "i", "s", "e", "f", "a", "l", "l">>)),
      DecimalField(clockhigh), DecimalField(clockperiod)>>

\* lines 81-90: params is no name of the module, so the else branch raises
\* NameError before it can raise ValueError
clock_edge(bus_params, clockdelay, clockhigh, clockperiod) ==
    IF DictGet(bus_params, <<"e", "d", "g", "e">>) = Value(<<"r", "i", "s", "i", "n", "g">>)
    THEN Return([fields |-> pulse_fields(bus_params, <<"b", "i", "t", "l", "o", "w">>, <<"b", "i", "t", "h", "i", "g", "h">>,
                                         clockdelay, clockhigh, clockperiod)])
    ELSE IF DictGet(bus_params, <<"e", "d", "g", "e">>) = Value(<<"f", "a", "l", "l", "i", "n", "g">>)
    THEN Return([fields |-> pulse_fields(bus_params, <<"b", "i", "t", "h", "i", "g", "h">>, <<"b", "i", "t", "l", "o", "w">>,
                                         clockdelay, clockhigh, clockperiod)])
    ELSE Raise("NameError")

\* lines 71-72: clockhigh and clockperiod
clock_times(bus_params, bittime, clockrisefall) ==
    IF bittime.err # "" THEN bittime
    ELSE IF clockrisefall.err # "" THEN clockrisefall
    ELSE clock_edge(bus_params, local_clockdelay(bus_params, bittime.val),
                    DMul(Decimal(5, -1), DSub(bittime.val, clockrisefall.val)),
                    DAdd(bittime.val, DMul(Decimal(2, 0), clockrisefall.val)))

\* lines 65-68: the clock's rise and fall time, the data's when none is given
clock_risefall(bus_params) ==
    IF Truthy(DictGet(bus_params, <<"c", "l", "o", "c", "k", "r", "i", "s", "e", "f", "a", "l", "l">>))
    THEN unit(DictGet(bus_params, <<"c", "l", "o", "c", "k", "r", "i", "s", "e", "f", "a", "l", "l">>))
    ELSE unit(DictGet(bus_params, <<"r", "i", "s", "e", "f", "a", "l", "l">>))

gen_clock(bus_params) ==
    clock_times(bus_params, unit(DictGet(bus_params, <<"b", "i", "t", "t", "i", "m", "e">>)),
                clock_risefall(bus_params))

ClockParams ==
    {WithParams(InitialParams,
                <<<<<<"b", "i", "t", "h", "i", "g", "h">>, Value(<<"5">>)>>, <<<<"b", "i", "t", "l", "o", "w">>, lo>>, <<<<"r", "i", "s", "e", "f", "a", "l", "l">>, trf>>,
                  <<<<"b", "i", "t", "t", "i", "m", "e">>, bt>>, <<<<"c", "l", "o", "c", "k", "r", "i", "s", "e", "f", "a", "l", "l">>, crf>>,
                  <<<<"c", "l", "o", "c", "k", "d", "e", "l", "a", "y">>, cd>>, <<<<"e", "d", "g", "e">>, edge>>>>) :
        lo \in BitLows, trf \in RiseFalls, bt \in BitTimes,
        crf \in ClockRiseFalls, cd \in ClockDelays, edge \in Edges}

InitGenClock ==
    /\ fn = "gen_clock" /\ arg \in ClockParams /\ ret = NotCalled
    /\ ParserIdle /\ ToolsIdle

CallGenClock ==
    /\ fn = "gen_clock" /\ ret = NotCalled
    /\ ret' = gen_clock(arg)
    /\ UNCHANGED <<fn, arg, parser_vars, tool_vars>>

SpecGenClock == InitGenClock /\ [][CallGenClock]_vars

\* the clock's rise and fall time
ClockRiseFallOf(p) ==
    IF DictGet(p, <<"c", "l", "o", "c", "k", "r", "i", "s", "e", "f", "a", "l", "l">>).given THEN unit(DictGet(p, <<"c", "l", "o", "c", "k", "r", "i", "s", "e", "f", "a", "l", "l">>)).val
    ELSE unit(DictGet(p, <<"r", "i", "s", "e", "f", "a", "l", "l">>)).val

\* C14: the clock definition of gen_clock has as its delay the clockdelay of
\* the busfile when there is one and 0.25 * bittime when there is none, as its
\* period bittime + 2 * clockrisefall and as its high time
\* 0.5 * (bittime - clockrisefall).
C14_ClockDefinition ==
    (Called("gen_clock") /\ ret.err = "")
        => (/\ IF DictGet(arg, <<"c", "l", "o", "c", "k", "d", "e", "l", "a", "y">>).given
               THEN ret.val.fields[3] = TextField(DictGet(arg, <<"c", "l", "o", "c", "k", "d", "e", "l", "a", "y">>).text)
               ELSE /\ ret.val.fields[3].kind = "decimal"
                    /\ DEq(ret.val.fields[3].d,
                           DMul(Decimal(25, -2), unit(DictGet(arg, <<"b", "i", "t", "t", "i", "m", "e">>)).val))
            /\ ret.val.fields[7].kind = "decimal"
            /\ DEq(ret.val.fields[7].d,
                   DAdd(unit(DictGet(arg, <<"b", "i", "t", "t", "i", "m", "e">>)).val,
                        DMul(Decimal(2, 0), ClockRiseFallOf(arg))))
            /\ ret.val.fields[6].kind = "decimal"
            /\ DEq(DMul(Decimal(2, 0), ret.val.fields[6].d),
                   DSub(unit(DictGet(arg, <<"b", "i", "t", "t", "i", "m", "e">>)).val, ClockRiseFallOf(arg))))

-----------------------------------------------------------------------------
(* bus2pwl.bus2pwl: the busfile is parsed, then the clock and one source per *)
(* input signal are written to the .pwl file                                 *)

\* one f.write(): a newline, or the text of a source, kept as gen_clock or
\* gen_signal built it
Written(source, def) == [source |-> source, def |-> def]

Newline == Written("newline", <<>>)

\* lines 104-112: parse_busfile has returned; the file is opened and a blank
\* line written
bus2pwl_open ==
    /\ fn = "bus2pwl" /\ pc = "done"
    /\ pwl' = <<Newline>>
    /\ pc' = "clock"
    /\ UNCHANGED <<call_vars, parsed_vars, err, signal_index, verify_vars>>

\* lines 115-117, clk being gen_clock(bus_params); the clockhigh and
\* clockperiod gen_clock stores into bus_params are read by nothing later
bus2pwl_clock_as(clk) ==
    /\ fn = "bus2pwl" /\ pc = "clock"
    /\ IF DictGet(file_contents.params, <<"e", "d", "g", "e">>).text = <<"n", "o", "n", "e">>
       THEN /\ pc' = "signals"
            /\ UNCHANGED <<pwl, err>>
       ELSE IF clk.err # ""
       THEN /\ Failed(clk.err, <<>>)
            /\ UNCHANGED pwl
       ELSE /\ pwl' = pwl \o <<Written("clock", clk.val), Newline>>
            /\ pc' = "signals"
            /\ UNCHANGED err
    /\ signal_index' = 1
    /\ UNCHANGED <<call_vars, parsed_vars, verify_vars>>

bus2pwl_clock == bus2pwl_clock_as(gen_clock(file_contents.params))

\* lines 120-122: one turn of the loop over bus_parsed['signals'].items(), src
\* being gen_signal(bus_params, signal, vector)
bus2pwl_signal_as(src) ==
    /\ fn = "bus2pwl" /\ pc = "signals"
    /\ signal_index <= Len(file_contents.signals)
    /\ IF src.err # ""
       THEN /\ Failed(src.err, <<>>)
            /\ UNCHANGED <<pwl, signal_index>>
       ELSE /\ pwl' = pwl \o <<Written("signal", src.val), Newline>>
            /\ signal_index' = signal_index + 1
            /\ UNCHANGED <<pc, err>>
    /\ UNCHANGED <<call_vars, parsed_vars, verify_vars>>

bus2pwl_signal ==
    bus2pwl_signal_as(gen_signal(file_contents.params,
                                 file_contents.signals[signal_index][1],
                                 file_contents.signals[signal_index][2]))

\* lines 124-125: return pwl_name
bus2pwl_return ==
    /\ fn = "bus2pwl" /\ pc = "signals"
    /\ signal_index > Len(file_contents.signals)
    /\ pc' = "converted"
    /\ ret' = Return(<<"p", "w", "l", "_", "n", "a", "m", "e">>)
    /\ UNCHANGED <<fn, arg, parsed_vars, err, tool_vars>>

\* the busfiles bus2pwl is run on: the edge and the clock's parameters vary
EdgeLines ==
    {<<>>, <<Line(<<"e", "d", "g", "e", "=", "r", "i", "s", "i", "n", "g">>)>>, <<Line(<<"e", "d", "g", "e", "=", "f", "a", "l", "l", "i", "n", "g">>)>>, <<Line(<<"e", "d", "g", "e", "=", "n", "o", "n", "e">>)>>}

ClockLines ==
    {<<>>, <<Line(<<"c", "l", "o", "c", "k", "r", "i", "s", "e", "f", "a", "l", "l", "=", "1", "0", "0", "p">>)>>, <<Line(<<"c", "l", "o", "c", "k", "d", "e", "l", "a", "y", "=", "2", "5", "0", "p">>)>>,
     <<Line(<<"c", "l", "o", "c", "k", "r", "i", "s", "e", "f", "a", "l", "l", "=", "1", "0", "0", "p">>), Line(<<"c", "l", "o", "c", "k", "d", "e", "l", "a", "y", "=", "2", "5", "0", "p">>)>>}

ConvertedBase ==
    FullParams \o <<Line(<<"c", "l", "o", "c", "k", "r", "i", "s", "e", "f", "a", "l", "l", "=", "1", "0", "0", "p">>), Line(<<"c", "l", "o", "c", "k", "d", "e", "l", "a", "y", "=", "2", "5", "0", "p">>)>>
               \o InputSection(<<"a", " ", "b">>, <<Line(<<"0", "1">>), Line(<<"1", "0">>)>>)
               \o OutputSection(<<"y">>, <<Line(<<"1">>), Line(<<"0">>)>>)

ConvertedBusfiles ==
    {RequiredLines(<<>>) \o e \o c \o InputSection(names, rows) :
        e \in EdgeLines, c \in ClockLines, names \in {<<"a">>, <<"a", " ", "b">>},
        rows \in RowSeqs}
    \cup {Insert(ConvertedBase, k, l) :
            k \in 1..(Len(ConvertedBase) + 1), l \in {Line(<<>>), Line(<<"#", " ", "c", "o", "m", "m", "e", "n", "t">>)}}
    \cup {SubSeq(ConvertedBase, 1, k) : k \in 0..Len(ConvertedBase)}

InitBus2pwl ==
    /\ fn = "bus2pwl" /\ arg = <<>> /\ ret = NotCalled
    /\ file \in ConvertedBusfiles
    /\ pos = 1
    /\ pc = "read_params"
    /\ section = "in"
    /\ line = <<>>
    /\ fposition = 1
    /\ params = <<>>
    /\ sigs = <<>> /\ vecs = <<>>
    /\ signals = <<>> /\ vectors = <<>>
    /\ output_signals = <<>> /\ output_vectors = <<>>
    /\ file_contents = [params |-> <<>>, signals |-> <<>>, outputs |-> <<>>]
    /\ err = NoError
    /\ ToolsIdle

NextBus2pwl ==
    \/ read_params_begin
    \/ read_params_skip1
    \/ read_params_line
    \/ read_params_skip2
    \/ read_params_end
    \/ read_signals_begin
    \/ read_signals_skip1
    \/ read_signals_keyword
    \/ read_signals_skip2
    \/ read_signals_names
    \/ read_signals_skip3
    \/ read_signals_end
    \/ read_vectors_begin
    \/ read_vectors_line
    \/ read_vectors_skip
    \/ read_vectors_end
    \/ parse_busfile_inputs
    \/ parse_busfile_outputs
    \/ bus2pwl_open
    \/ bus2pwl_clock
    \/ bus2pwl_signal
    \/ bus2pwl_return

SpecBus2pwl == InitBus2pwl /\ [][NextBus2pwl]_vars

\* the sources of one kind written, in order
SourcesWritten(source) == SelectSeq(pwl, LAMBDA w : w.source = source)

\* one source was written for every input signal, in the order of the signals
EverySignalWritten ==
    /\ Len(SourcesWritten("signal")) = Len(file_contents.signals)
    /\ \A i \in 1..Len(file_contents.signals) :
          SourcesWritten("signal")[i].def.name = file_contents.signals[i][1]

\* C15: a busfile with edge=none is accepted and converts to one source per
\* input signal and no clock definition; with edge rising, falling or absent
\* a conversion writes exactly one clock definition, before the signal sources
C15_EdgeNoneSuppressesClock ==
    /\ ~(/\ pc = "raised"
         /\ err.arg = <<"I", "n", "v", "a", "l", "i", "d", " ", "e", "d", "g", "e", " ", "v", "a", "l", "u", "e">>
         /\ DictGet(params, <<"e", "d", "g", "e">>) = Value(<<"n", "o", "n", "e">>))
    /\ pc = "converted" =>
          /\ EverySignalWritten
          /\ IF DictGet(file_contents.params, <<"e", "d", "g", "e">>).text = <<"n", "o", "n", "e">>
             THEN Len(SourcesWritten("clock")) = 0
             ELSE /\ Len(SourcesWritten("clock")) = 1
                  /\ pwl[2].source = "clock"

-----------------------------------------------------------------------------
(* busverify.clockedge_index and busverify.busverify.  The raw file is its    *)
(* time axis (time_array) and one trace per net (traces); sample times and    *)
(* voltages are floats in the code and are taken here from values a float     *)
(* holds exactly, so that Decimal arithmetic gives what the code computes.    *)

\* line 30: abs(time) < target_time
time_before_signed(time, target_time) == DLess(time, target_time)

time_before(time, target_time) == DLess(DAbs(time), target_time)

\* lines 23-33: the loop over enumerate(time_array), index counting from 0
RECURSIVE clockedge_loop(_, _, _, _)
clockedge_loop(times, target_time, index, edge_index) ==
    IF index >= Len(times) THEN edge_index
    ELSE IF time_before(times[index + 1], target_time)
         THEN clockedge_loop(times, target_time, index + 1, index)
         ELSE edge_index

clockedge_index(times, target_time) == clockedge_loop(times, target_time, 0, 0)

\* seq[start:], start counting from 0
SliceFrom(seq, start) == SubSeq(seq, start + 1, Len(seq))

\* seq[start:stop], both counting from 0
Slice(seq, start, stop) == SubSeq(seq, start + 1, Min(stop, Len(seq)))

\* lines 115 and 118: hold_index + next_su, su_index + next_h
next_index_rewound(index, advance) == advance

next_index(index, advance) == index + advance

\* line 56: the net of a signal
netname(signal) == <<"V", "(">> \o signal \o <<")">>

\* lines 74-78 and 88-89: a parameter through unit(), through Decimal()
clockparam(name) == unit(DictGet(file_contents.params, name))

logic_level(name) == decimal_of(DictGet(file_contents.params, name).text)

\* lines 85-86
first_edge_time == clockparam(<<"c", "l", "o", "c", "k", "d", "e", "l", "a", "y">>).val

clockperiod ==
    DAdd(clockparam(<<"b", "i", "t", "t", "i", "m", "e">>).val, DMul(Decimal(2, 0), clockparam(<<"c", "l", "o", "c", "k", "r", "i", "s", "e", "f", "a", "l", "l">>).val))

\* line 90
logic_thresh ==
    DMul(DSub(logic_level(<<"b", "i", "t", "h", "i", "g", "h">>).val, logic_level(<<"b", "i", "t", "l", "o", "w">>).val), Decimal(75, -2))

\* the first exception of the calls made in order, "" if none raises
RECURSIVE first_error(_)
first_error(results) ==
    IF Len(results) = 0 THEN ""
    ELSE IF results[1].err # "" THEN results[1].err
    ELSE first_error(Tail(results))

\* lines 65-68: every output's net is among the traces
nets_found ==
    \A i \in 1..Len(file_contents.outputs) :
        DictHas(traces, netname(file_contents.outputs[i][1]))

\* lines 45-93, failure being the first exception of lines 74-89
busverify_begin_as(failure) ==
    /\ fn = "busverify" /\ pc = "done"
    /\ IF ~nets_found
       THEN /\ Failed("AssertionError", <<"S", "p", "e", "c", "i", "f", "i", "e", "d", " ", "o", "u", "t", "p", "u", "t", " ", "s", "i", "g", "n", "a", "l", " ", "w", "a", "s", " ", "n", "o", "t", " ", "f", "o", "u", "n", "d", " ", "i", "n", " ", "t", "h", "e", " ", "r", "a", "w", "f", "i", "l", "e">>)
            /\ UNCHANGED signal_index
       ELSE IF failure # ""
       THEN /\ Failed(failure, <<>>)
            /\ UNCHANGED signal_index
       ELSE /\ pc' = "signal"
            /\ signal_index' = 1
            /\ UNCHANGED err
    /\ all_passed' = TRUE
    /\ UNCHANGED <<call_vars, parsed_vars, pwl, time_array, traces, loop_edge_time,
                   su_index, hold_index, bit_count, simulation_results, v_avg, log>>

busverify_begin ==
    busverify_begin_as(first_error(<<clockparam(<<"b", "i", "t", "t", "i", "m", "e">>), clockparam(<<"t", "s", "u">>), clockparam(<<"t", "h">>),
                                     clockparam(<<"c", "l", "o", "c", "k", "d", "e", "l", "a", "y">>), clockparam(<<"c", "l", "o", "c", "k", "r", "i", "s", "e", "f", "a", "l", "l">>),
                                     logic_level(<<"b", "i", "t", "h", "i", "g", "h">>), logic_level(<<"b", "i", "t", "l", "o", "w">>)>>))

\* lines 96-103: the next output signal
busverify_signal ==
    /\ fn = "busverify" /\ pc = "signal"
    /\ signal_index <= Len(file_contents.outputs)
    /\ loop_edge_time' = first_edge_time
    /\ su_index' = 0
    /\ hold_index' = 0
    /\ bit_count' = 0
    /\ simulation_results' = <<>>
    /\ pc' = "bit"
    /\ UNCHANGED <<call_vars, parsed_vars, err, pwl, time_array, traces, all_passed,
                   signal_index, v_avg, log>>

\* line 102: the trace of the signal under test
trace == DictGet(traces, netname(file_contents.outputs[signal_index][1]))

\* sum() of a slice
RECURSIVE sum(_)
sum(values) ==
    IF Len(values) = 0 THEN Decimal(0, 0) ELSE DAdd(values[1], sum(Tail(values)))

\* lines 123-134: the mean of trace[su:hold + 1], or the sample at su
window_value(su, hold) ==
    IF hold - su # 0
    THEN [sum |-> sum(Slice(trace, su, hold + 1)), n |-> hold - su + 1]
    ELSE [sum |-> trace[su + 1], n |-> 1]

\* line 137: v_avg > logic_thresh
exceeds(v, thresh) == DLess(DMul(thresh, Decimal(v.n, 0)), v.sum)

\* lines 136-141
busverify_classify(su, hold, v) ==
    /\ su_index' = su
    /\ hold_index' = hold
    /\ v_avg' = v
    /\ simulation_results' =
           Append(simulation_results, IF exceeds(v, logic_thresh) THEN "1" ELSE "0")
    /\ loop_edge_time' = DAdd(loop_edge_time, clockperiod)

\* lines 117-118: hold, found from su on
busverify_hold(su, hold) == busverify_classify(su, hold, window_value(su, hold))

\* lines 112-115: su, found from the last hold_index on
busverify_setup(su, edge_hold_time) ==
    busverify_hold(su, next_index(su, clockedge_index(SliceFrom(time_array, su),
                                                      edge_hold_time)))

\* lines 104-141: one expected bit
busverify_bit ==
    /\ fn = "busverify" /\ pc = "bit"
    /\ bit_count < Len(file_contents.outputs[signal_index][2])
    /\ bit_count' = bit_count + 1
    /\ busverify_setup(next_index(hold_index,
                                  clockedge_index(SliceFrom(time_array, hold_index),
                                                  DSub(loop_edge_time, clockparam(<<"t", "s", "u">>).val))),
                       DAdd(DAdd(loop_edge_time, clockparam(<<"t", "h">>).val),
                            clockparam(<<"c", "l", "o", "c", "k", "r", "i", "s", "e", "f", "a", "l", "l">>).val))
    /\ UNCHANGED <<call_vars, parsed_vars, pc, err, pwl, time_array, traces, all_passed,
                   signal_index, log>>

\* line 143: simulation_results == bus_outputs[signal]
results_match_in_length(results, expected) == Len(results) = Len(expected)

results_match(results, expected) == results = expected

\* lines 144-149: what is logged for a signal
Verdict(signal, passed, actual, expected) ==
    [signal |-> signal, passed |-> passed, actual |-> actual, expected |-> expected]

\* lines 143-149: the bits of the signal are through
busverify_verdict_as(signal, expected, passed) ==
    /\ fn = "busverify" /\ pc = "bit"
    /\ bit_count = Len(expected)
    /\ all_passed' = IF passed THEN all_passed ELSE FALSE
    /\ log' = Append(log, Verdict(signal, passed, simulation_results, expected))
    /\ signal_index' = signal_index + 1
    /\ pc' = "signal"
    /\ UNCHANGED <<call_vars, parsed_vars, err, pwl, time_array, traces, loop_edge_time,
                   su_index, hold_index, bit_count, simulation_results, v_avg>>

busverify_verdict ==
    busverify_verdict_as(file_contents.outputs[signal_index][1],
                         file_contents.outputs[signal_index][2],
                         results_match(simulation_results,
                                       file_contents.outputs[signal_index][2]))

\* line 150
busverify_return ==
    /\ fn = "busverify" /\ pc = "signal"
    /\ signal_index > Len(file_contents.outputs)
    /\ ret' = Return(all_passed)
    /\ pc' = "verified"
    /\ UNCHANGED <<fn, arg, parsed_vars, err, tool_vars>>

-----------------------------------------------------------------------------
(* The busfiles and raw files busverify is run on *)

\* what parse_busfile returns for a busfile with an output section; the
\* times are whole seconds
VerifyParams(lo, clockdelay, clockrisefall) ==
    WithParams(InitialParams,
               <<<<<<"b", "i", "t", "h", "i", "g", "h">>, Value(<<"5">>)>>, <<<<"b", "i", "t", "l", "o", "w">>, lo>>,
                 <<<<"r", "i", "s", "e", "f", "a", "l", "l">>, Value(<<"1">>)>>, <<<<"b", "i", "t", "t", "i", "m", "e">>, Value(<<"4">>)>>,
                 <<<<"t", "s", "u">>, Value(<<"1">>)>>, <<<<"t", "h">>, Value(<<"1">>)>>,
                 <<<<"c", "l", "o", "c", "k", "d", "e", "l", "a", "y">>, clockdelay>>, <<<<"c", "l", "o", "c", "k", "r", "i", "s", "e", "f", "a", "l", "l">>, clockrisefall>>>>)

Parsed(p, outputs) ==
    [params |-> p,
     signals |-> <<<<<<"a">>, [i \in 1..Len(outputs[1][2]) |-> "0"]>>>>,
     outputs |-> outputs]

\* the sample times there are to choose from, and the voltages
SampleTimes == <<Decimal(0, 0), Decimal(15, -1), Decimal(3, 0), Decimal(9, 0)>>

Voltages == {Decimal(0, 0), Decimal(35, -1), Decimal(5, 0)}

MaxSamples == 3

\* the chosen sample times in ascending order
RECURSIVE Ascending(_)
Ascending(S) ==
    IF S = {} THEN <<>>
    ELSE <<SampleTimes[CHOOSE i \in S : \A j \in S : i <= j]>>
         \o Ascending(S \ {CHOOSE i \in S : \A j \in S : i <= j})

\* the time axis with the sign of its sample k wrong
SignCorrupted(times, k) ==
    [i \in 1..Len(times) |-> IF i = k THEN Decimal(0 - times[i].c, times[i].e) ELSE times[i]]

TimeAxes ==
    {Ascending(S) : S \in {T \in SUBSET (1..Len(SampleTimes)) :
                              Cardinality(T) \in 1..MaxSamples}}

TimeArrays ==
    TimeAxes \cup {SignCorrupted(t, 2) : t \in {u \in TimeAxes : Len(u) >= 2}}

Reverse(seq) == [i \in 1..Len(seq) |-> seq[Len(seq) + 1 - i]]

\* all ones or all zeros are expected of an output
ExpectedBits == {[i \in 1..n |-> b] : n \in 1..MaxRows, b \in {"0", "1"}}

\* one output signal: any time axis, any trace
OneOutput ==
    /\ time_array \in TimeArrays
    /\ traces \in {<<<<netname(<<"y">>), v>>>> : v \in [1..Len(time_array) -> Voltages]}
    /\ file_contents \in {Parsed(VerifyParams(lo, Value(<<"2">>), Value(<<"1">>)),
                                 <<<<<<"y">>, bits>>>>) :
                             lo \in BitLows, bits \in ExpectedBits}

\* two output signals: the longest time axes, the second trace the first one
\* backwards
TwoOutputs ==
    /\ time_array \in {t \in TimeAxes : \A u \in TimeAxes : Len(u) <= Len(t)}
    /\ traces \in {<<<<netname(<<"y">>), v>>, <<netname(<<"z">>), Reverse(v)>>>> :
                      v \in [1..Len(time_array) -> Voltages]}
    /\ file_contents \in {Parsed(VerifyParams(lo, Value(<<"2">>), Value(<<"1">>)),
                                 <<<<<<"y">>, e[1]>>, <<<<"z">>, e[2]>>>>) :
                             lo \in BitLows,
                             e \in {d \in ExpectedBits \X ExpectedBits :
                                       Len(d[1]) = Len(d[2])}}

\* a busfile without clockdelay or clockrisefall, or a raw file without the
\* net of an output
NotVerifiable ==
    /\ time_array = Ascending({1, 2})
    /\ traces = <<<<netname(<<"y">>), <<Decimal(0, 0), Decimal(5, 0)>>>>>>
    /\ file_contents \in
           {Parsed(VerifyParams(Value(<<"0">>), cd, crf), <<<<<<"y">>, <<"0">>>>>>) :
               cd \in {None, Value(<<"2">>)}, crf \in {None, Value(<<"1">>)}}
           \cup {Parsed(VerifyParams(Value(<<"0">>), Value(<<"2">>), Value(<<"1">>)),
                        <<<<<<"y">>, <<"0">>>>, <<<<"z">>, <<"1">>>>>>)}

InitVerify ==
    /\ fn = "busverify" /\ arg = <<>> /\ ret = NotCalled
    /\ file = <<>> /\ pos = 1 /\ pc = "done" /\ section = "out"
    /\ line = <<>> /\ fposition = 1 /\ params = <<>>
    /\ sigs = <<>> /\ vecs = <<>> /\ signals = <<>> /\ vectors = <<>>
    /\ output_signals = <<>> /\ output_vectors = <<>>
    /\ err = NoError
    /\ OneOutput \/ TwoOutputs \/ NotVerifiable
    /\ pwl = <<>> /\ all_passed = TRUE /\ signal_index = 0
    /\ loop_edge_time = Decimal(0, 0)
    /\ su_index = 0 /\ hold_index = 0 /\ bit_count = 0
    /\ simulation_results = <<>> /\ v_avg = [sum |-> Decimal(0, 0), n |-> 1]
    /\ log = <<>>

NextVerify ==
    \/ busverify_begin
    \/ busverify_signal
    \/ busverify_bit
    \/ busverify_verdict
    \/ busverify_return

SpecVerify == InitVerify /\ [][NextVerify]_vars

-----------------------------------------------------------------------------
(* Properties of busverify *)

\* a bit of the signal under test has just been classified
BitClassified == fn = "busverify" /\ pc = "bit" /\ bit_count > 0

\* bitlow + 0.75 * (bithigh - bitlow)
ThreeQuarterLevel ==
    DAdd(logic_level(<<"b", "i", "t", "l", "o", "w">>).val,
         DMul(Decimal(75, -2),
              DSub(logic_level(<<"b", "i", "t", "h", "i", "g", "h">>).val, logic_level(<<"b", "i", "t", "l", "o", "w">>).val)))

\* the window value, a sum over a number of samples, is above the level
MeanAbove(v, level) == DLess(DMul(level, Decimal(v.n, 0)), v.sum)

\* C16: a bit is classified '1' exactly when the window value is strictly
\* greater than bitlow + 0.75 * (bithigh - bitlow), and '0' otherwise, a value
\* at the threshold included, for bitlow = 0 and for bitlow # 0 alike
C16_ThresholdAboveBitlow ==
    BitClassified =>
        simulation_results[bit_count] =
            (IF MeanAbove(v_avg, ThreeQuarterLevel) THEN "1" ELSE "0")

\* busverify has returned
Verified == fn = "busverify" /\ pc = "verified"

\* the bits reconstructed for output i are the bits expected of it
Reconstructed(i) == log[i].actual = file_contents.outputs[i][2]

\* C17: the result of busverify is true if and only if the reconstructed bit
\* string of every output signal equals the expected one; a mismatch raises
\* nothing and every signal is checked, whatever the verdicts before it
C17_PassIffAllMatch ==
    /\ Verified =>
          /\ ret.err = ""
          /\ Len(log) = Len(file_contents.outputs)
          /\ \A i \in 1..Len(log) : log[i].signal = file_contents.outputs[i][1]
          /\ ret.val = (\A i \in 1..Len(log) : Reconstructed(i))
    /\ (fn = "busverify" /\ pc = "raised") => log = <<>>

\* the first of two signals failed, the second passed, the result is false
C17_Witness ==
    /\ Verified
    /\ Len(log) = 2
    /\ ~Reconstructed(1)
    /\ Reconstructed(2)
    /\ ret.val = FALSE

\* a step that classifies one more bit of the signal under test
BitStep == fn = "busverify" /\ pc = "bit" /\ pc' = "bit" /\ bit_count' = bit_count + 1

\* an index (from 0) of the sample array
ValidIndex(i) == i \in 0..(Len(time_array) - 1)

\* C18: for every expected bit of a signal the setup index is at least the
\* hold index of the bit before and the hold index at least the setup index,
\* so neither index ever decreases; both stay valid indices of the sample
\* array wherever the window bounds lie, and both are 0 when a signal starts
C18_IndicesNeverRewind ==
    /\ []((fn = "busverify" /\ pc = "bit") => (ValidIndex(su_index) /\ ValidIndex(hold_index)))
    /\ []((fn = "busverify" /\ pc = "bit" /\ bit_count = 0) => (su_index = 0 /\ hold_index = 0))
    /\ [][BitStep => /\ su_index' >= hold_index
                     /\ hold_index' >= su_index'
                     /\ su_index' >= su_index
                     /\ hold_index' >= hold_index]_vars

\* the second signal, past its second bit: the indices have advanced from 0
\* again, up to the last sample, the hold window ending after it
C18_Witness ==
    /\ fn = "busverify" /\ pc = "bit"
    /\ signal_index = 2 /\ bit_count = 2
    /\ su_index > 0
    /\ hold_index = Len(time_array) - 1
    /\ DLess(DAbs(time_array[Len(time_array)]), loop_edge_time)

\* the edge of bit i (from 0) and the bounds of its window
EdgeTime(i) == DAdd(first_edge_time, DMul(Decimal(i, 0), clockperiod))

SetupStart(i) == DSub(EdgeTime(i), clockparam(<<"t", "s", "u">>).val)

HoldEnd(i) == DAdd(DAdd(EdgeTime(i), clockparam(<<"t", "h">>).val), clockparam(<<"c", "l", "o", "c", "k", "r", "i", "s", "e", "f", "a", "l", "l">>).val)

\* the magnitude of the time of sample j (from 0)
Magnitude(j) == DAbs(time_array[j + 1])

\* the last sample of the run of samples, from start on, whose times are by
\* magnitude before the bound; start itself if there is no such run
WindowIndex(start, bound) ==
    IF ~DLess(Magnitude(start), bound) THEN start
    ELSE CHOOSE k \in start..(Len(time_array) - 1) :
            /\ \A j \in start..k : DLess(Magnitude(j), bound)
            /\ k = Len(time_array) - 1 \/ ~DLess(Magnitude(k + 1), bound)

\* the sum of the samples a to b (from 0) of the trace under test
RECURSIVE SamplesSum(_, _)
SamplesSum(a, b) ==
    IF a > b THEN Decimal(0, 0) ELSE DAdd(trace[a + 1], SamplesSum(a + 1, b))

\* C19: bit i of a signal is read at the edge clockdelay + i * (bittime +
\* 2 * clockrisefall); its setup index is found with the bound edge - tsu, its
\* hold index with the bound edge + th + clockrisefall, sample times counting
\* by their magnitude; the value classified is the mean of the samples from
\* the setup index through the hold index, the one sample if they are equal
C19_WindowMean ==
    [][BitStep =>
          /\ DEq(loop_edge_time, EdgeTime(bit_count))
          /\ su_index' = WindowIndex(hold_index, SetupStart(bit_count))
          /\ hold_index' = WindowIndex(su_index', HoldEnd(bit_count))
          /\ v_avg'.n = hold_index' - su_index' + 1
          /\ DEq(v_avg'.sum, SamplesSum(su_index', hold_index'))
          /\ (simulation_results'[bit_count'] = "1") = MeanAbove(v_avg', logic_thresh)]_vars

\* a bit was classified by the mean of several samples, one of them with a
\* negative time
C19_Witness ==
    /\ BitClassified
    /\ v_avg.n >= 2
    /\ hold_index - su_index + 1 = v_avg.n
    /\ \E j \in su_index..hold_index : time_array[j + 1].c < 0

-----------------------------------------------------------------------------
(* Properties of the output section of a busfile *)

\* the lines that begin, in any letter case, with "outputs:"
OutputsLines == {k \in 1..Len(file) : StartsWith(Lower(file[k]), <<"o", "u", "t", "p", "u", "t", "s", ":">>)}

FirstOutputsLine == CHOOSE k \in OutputsLines : \A j \in OutputsLines : k <= j

\* the names on the line after it
OutputNames == Tokens(file[FirstOutputsLine + 1])

\* the first row below the names, a 'Vectors:' line between them or none
FirstOutputRow ==
    IF Keyword(file[FirstOutputsLine + 2]) = <<"v", "e", "c", "t", "o", "r", "s", ":">>
    THEN FirstOutputsLine + 3 ELSE FirstOutputsLine + 2

\* a row of one bit per output signal
IsOutputRow(l) ==
    /\ Len(Tokens(l)) = 1
    /\ Len(Tokens(l)[1]) = Len(OutputNames)
    /\ \A i \in 1..Len(Tokens(l)[1]) : Tokens(l)[1][i] \in {"0", "1"}

\* the 'Outputs:' line is followed by a line of distinct plain names and, to
\* the end of the file, by as many rows of bits as there are input rows
NamesFollowOutputs ==
    /\ OutputsLines # {}
    /\ FirstOutputsLine + 2 <= Len(file)
    /\ Len(OutputNames) > 0
    /\ Keyword(file[FirstOutputsLine + 1]) \notin {<<"s", "i", "g", "n", "a", "l", "s", ":">>, <<"o", "u", "t", "p", "u", "t", "s", ":">>, <<"v", "e", "c", "t", "o", "r", "s", ":">>}
    /\ \A i \in 1..Len(OutputNames) :
          /\ ~IsRangeToken(OutputNames[i])
          /\ \A j \in 1..Len(OutputNames) : OutputNames[i] = OutputNames[j] => i = j
    /\ FirstOutputRow <= Len(file)
    /\ \A r \in FirstOutputRow..Len(file) : IsOutputRow(file[r])
    /\ Len(file) - FirstOutputRow + 1 = Len(vectors)

\* the bits of output i in the rows, from the first row to the last
ExpectedOf(i) ==
    [r \in 1..(Len(file) - FirstOutputRow + 1) |-> Tokens(file[FirstOutputRow + r - 1])[1][i]]

\* C20: when the input rows end at a line beginning with "outputs:", that line
\* is consumed and the output names and output rows that follow it are parsed
\* into one expected bit sequence per output signal, in row order, no line of
\* the output section being skipped or read twice
C20_OutputSectionParsed ==
    (pc \in {"done", "raised"} /\ section = "out" /\ NamesFollowOutputs)
    => /\ pc = "done"
       /\ Len(file_contents.outputs) = Len(OutputNames)
       /\ \A i \in 1..Len(OutputNames) :
             /\ file_contents.outputs[i][1] = OutputNames[i]
             /\ file_contents.outputs[i][2] = ExpectedOf(i)

-----------------------------------------------------------------------------
(* Termination of parse_busfile: the interpreter always takes the next step  *)
(* of the program, so a step that is possible is eventually taken            *)

\* the busfiles that end early, or have a blank or comment line somewhere
InitLayout == Init /\ file \in LayoutBusfiles

SpecTerminating == InitLayout /\ [][Next]_vars /\ WF_vars(Next)

\* parse_busfile has returned its result or raised
Terminated == pc \in {"done", "raised"}

\* C21: parse_busfile terminates on every busfile: it returns or raises, also
\* when the file ends before a 'Signals:' line, before a line of signal names
\* or before a 'Vectors:' line
C21_ParseTerminates == <>Terminated

-----------------------------------------------------------------------------
(* The time cursor of gen_signal *)

RiseFall == ArgUnit(<<"r", "i", "s", "e", "f", "a", "l", "l">>)

\* i*P + j*risefall, i a bit index from 0 and j a number of transitions
CursorAt(i, j) ==
    DAdd(DMul(Decimal(i, 0), EffectivePeriod), DMul(Decimal(j, 0), RiseFall))

\* the transitions of the bit sequence of the call, as positions from 1
ArgTransitions == TransitionSeq(arg.vector, 2)

\* C22: in gen_signal a bit equal to its predecessor emits no breakpoint and
\* advances the time cursor by the effective period P; a bit that differs from
\* its predecessor at index i emits its two breakpoints at i*P + j*risefall and
\* i*P + (j+1)*risefall, j the number of transitions before index i; so every
\* level, from the end of the transition that reached it to the start of the
\* next transition, lasts a whole number of effective periods.
C22_CursorAdvance ==
    (Called("gen_signal") /\ ret.err = "")
        => (/\ Len(ret.val.points) = 1 + 2 * Len(ArgTransitions)
            /\ \A k \in 1..Len(ArgTransitions) :
                 /\ DEq(ret.val.points[2 * k].t,
                        CursorAt(ArgTransitions[k] - 1, k - 1))
                 /\ DEq(ret.val.points[2 * k + 1].t,
                        CursorAt(ArgTransitions[k] - 1, k))
            /\ \A k \in 2..Len(ArgTransitions) :
                 DEq(DSub(ret.val.points[2 * k].t, ret.val.points[2 * k - 1].t),
                     DMul(Decimal(ArgTransitions[k] - ArgTransitions[k - 1], 0),
                          EffectivePeriod)))

\* "0110" with a rise time: a transition, a repeated bit, then a second
\* transition that starts two effective periods after the end of the first
C22_Witness ==
    /\ Called("gen_signal") /\ ret.err = ""
    /\ arg.vector = <<"0", "1", "1", "0">>
    /\ DLess(Zero, RiseFall)
    /\ Len(ret.val.points) = 5
    /\ DEq(ret.val.points[4].t, CursorAt(3, 1))

\* the period of the clock of gen_clock: bittime + 2*clockrisefall
ClockPeriod ==
    DAdd(ArgUnit(<<"b", "i", "t", "t", "i", "m", "e">>), DMul(Decimal(2, 0), ArgUnit(<<"c", "l", "o", "c", "k", "r", "i", "s", "e", "f", "a", "l", "l">>)))

\* the time of the first breakpoint of the transition of v at position i
\* (from 1), points the breakpoints gen_signal gave for v
StartOf(points, v, i) ==
    points[2 * Cardinality({k \in TransitionsOf(v) : k <= i})].t

\* the breakpoints gen_signal gives for the bit sequence w with the parameters
\* of the call
PointsOf(w) == gen_signal(arg.bus_params, arg.signal, w).val.points

\* C23: data timing does not drift against the clock: the time at which
\* gen_signal begins the interval of bit i and emits its transition is the same
\* for all bit sequences of that length, whatever the number of transitions
\* among the earlier bits, and so two transitions of a sequence are a whole
\* number of clock periods bittime + 2*clockrisefall apart.
C23_NoDrift ==
    (Called("gen_signal") /\ ret.err = "")
        => (/\ \A w \in BitVectors :
                 Len(w) = Len(arg.vector)
                    => \A i \in TransitionsOf(w) \cap TransitionsOf(arg.vector) :
                         DEq(StartOf(ret.val.points, arg.vector, i),
                             StartOf(PointsOf(w), w, i))
            /\ \A i \in TransitionsOf(arg.vector) :
                 \A k \in TransitionsOf(arg.vector) :
                     i < k => DEq(DSub(StartOf(ret.val.points, arg.vector, k),
                                       StartOf(ret.val.points, arg.vector, i)),
                                  DMul(Decimal(k - i, 0), ClockPeriod)))

-----------------------------------------------------------------------------
(* The tokens of one vector line (read_vectors, lines 182-207) *)

\* literal tokens: bare, binary and hexadecimal, one with a digit that is none
LiteralTokens == {<<"0", "1">>, <<"0", "b", "1", "0">>, <<"0", "b">>, <<"0", "x", "1", "f">>, <<"0", "x", "A">>, <<"0", "x", "0">>, <<"0", "x", "g">>}

LineTokens ==
    LiteralTokens \cup {<<"[", "1", "]", "(", "1", ",", "1", ")">>, <<"[", "1", "]", "(", "0", ",", "1", ")">>, <<"[", "2", "]", "(", "0", ",", "2", ")">>}

InitLine ==
    /\ fn = "line_vectors"
    /\ arg \in SeqsUpTo(LineTokens, MaxTokens) \ {<<>>}
    /\ ret = NotCalled
    /\ ParserIdle /\ ToolsIdle

\* line 182 and the loop of lines 183-207 over the tokens of the line
CallLineVectors ==
    /\ fn = "line_vectors" /\ ret = NotCalled
    /\ ret' = line_rows(arg, <<<<>>>>)
    /\ UNCHANGED <<fn, arg, parser_vars, tool_vars>>

SpecLine == InitLine /\ [][CallLineVectors]_vars

HexDigits == <<"0", "1", "2", "3", "4", "5", "6", "7", "8", "9", "a", "b", "c", "d", "e", "f">>

HexUpper == <<"0", "1", "2", "3", "4", "5", "6", "7", "8", "9", "A", "B", "C", "D", "E", "F">>

\* the value of one hexadecimal digit
HexValue(d) ==
    IF Contains(HexDigits, d) THEN IndexOf(HexDigits, d) - 1
    ELSE IndexOf(HexUpper, d) - 1

Bit(n) == IF n % 2 = 1 THEN "1" ELSE "0"

\* the four bits of a hexadecimal digit
Nibble(d) ==
    <<Bit(HexValue(d) \div 8), Bit(HexValue(d) \div 4),
      Bit(HexValue(d) \div 2), Bit(HexValue(d))>>

RECURSIVE Nibbles(_)
Nibbles(digits) ==
    IF Len(digits) = 0 THEN <<>> ELSE Nibble(digits[1]) \o Nibbles(Tail(digits))

\* the literal bit string the specification gives a non-range token
LiteralBits(tok) ==
    IF StartsWith(tok, <<"0", "x">>) THEN Nibbles(From(tok, 2))
    ELSE IF StartsWith(tok, <<"0", "b">>) THEN From(tok, 2)
    ELSE tok

\* the range tokens of the call, in order
ArgRanges == SelectSeq(arg, IsRangeToken)

\* the ranges of the line expand to one number of rows
RangesAgree ==
    \A i \in 1..Len(ArgRanges) :
        /\ expand_vector(ArgRanges[i]).err = ""
        /\ Len(expand_vector(ArgRanges[i]).val) = Len(expand_vector(ArgRanges[1]).val)

\* row r of the line: literal bits and the r-th values of the ranges, in the
\* order of the tokens
RECURSIVE RowOf(_, _)
RowOf(tokens, r) ==
    IF Len(tokens) = 0 THEN <<>>
    ELSE (IF IsRangeToken(tokens[1]) THEN expand_vector(tokens[1]).val[r]
          ELSE LiteralBits(tokens[1])) \o RowOf(Tail(tokens), r)

\* C24: on a vector line every non-range token becomes its literal bit string
\* (a "0x" token 4 bits per hex digit, zero-padded; a "0b" or bare token its
\* digits) and is appended to every row produced so far on the line, so a
\* literal before a range is a common prefix and a literal after a range a
\* common suffix of all rows of the line; the number of rows of the line is
\* the expansion length of its ranges, or 1 when it has none.
C24_LiteralsOnEveryRow ==
    (Called("line_vectors") /\ ret.err = "" /\ RangesAgree)
        => (/\ Len(ret.val) = IF Len(ArgRanges) = 0 THEN 1
                              ELSE Len(expand_vector(ArgRanges[1]).val)
            /\ \A r \in 1..Len(ret.val) :
                 /\ ret.val[r] = RowOf(arg, r)
                 /\ ~IsRangeToken(arg[1])
                      => StartsWith(ret.val[r], LiteralBits(arg[1]))
                 /\ ~IsRangeToken(arg[Len(arg)])
                      => From(ret.val[r], Len(ret.val[r]) - Len(LiteralBits(arg[Len(arg)])))
                            = LiteralBits(arg[Len(arg)]))

\* a hex literal before and a binary literal after a range of two rows
C24_Witness ==
    /\ Called("line_vectors") /\ ret.err = ""
    /\ arg = <<<<"0", "x", "1", "f">>, <<"[", "1", "]", "(", "0", ",", "1", ")">>, <<"0", "b", "1", "0">>>>
    /\ ret.val = <<<<"0", "0", "0", "1", "1", "1", "1", "1", "0", "1", "0">>, <<"0", "0", "0", "1", "1", "1", "1", "1", "1", "1", "0">>>>

-----------------------------------------------------------------------------
(* Signal tokens that are not a complete bus *)

\* the index of the first c of s after position k, 0 when there is none
NextIndexOf(s, c, k) ==
    IF \E i \in (k + 1)..Len(s) : s[i] = c
    THEN CHOOSE i \in (k + 1)..Len(s) : s[i] = c /\ \A j \in (k + 1)..(i - 1) : s[j] # c
    ELSE 0

\* the '[' of the token, the ':' after it and the ']' after that
OpenAt == NextIndexOf(arg, "[", 0)

ColonAt == IF OpenAt = 0 THEN 0 ELSE NextIndexOf(arg, ":", OpenAt)

CloseAt == IF ColonAt = 0 THEN 0 ELSE NextIndexOf(arg, "]", ColonAt)

\* a '[', ':' or ']' of name[left:right]suffix is missing
Incomplete == OpenAt = 0 \/ ColonAt = 0 \/ CloseAt = 0

\* nothing stands before the '['
EmptyName == OpenAt = 1

\* decimal digits after at most one sign
IntegerText(s) ==
    /\ Len(s) > 0
    /\ \A i \in 1..Len(s) :
         \/ s[i] \in {"0", "1", "2", "3", "4", "5", "6", "7", "8", "9"}
         \/ i = 1 /\ s[i] \in {"+", "-"} /\ Len(s) > 1

\* the left or the right bound of a complete bus is no integer
BadBound ==
    /\ ~Incomplete
    /\ \/ ~IntegerText(SubSeq(arg, OpenAt + 1, ColonAt - 1))
       \/ ~IntegerText(SubSeq(arg, ColonAt + 1, CloseAt - 1))

\* C25: expand_signal fails with NameExpandError, returning no names, for every
\* signal token with incomplete bus notation (a '[', ':' or ']' missing), with
\* an empty name before '[', or with a non-integer left or right bound;
\* read_signals sends every token that contains '[' or ']' through
\* expand_signal, so such a token never becomes a plain wire of the signal list.
C25_MalformedBusRejected ==
    (Called("expand_signal") /\ (Incomplete \/ EmptyName \/ BadBound))
        => (/\ ret = Raise("NameExpandError")
            /\ (Contains(arg, "[") \/ Contains(arg, "]"))
                  => (/\ expand_name(arg) = ret
                      /\ expand_names(<<<<"a">>, arg>>).err = "NameExpandError"))

\* a token with a ']' but no '[', and a complete bus with a bound that is no
\* integer
C25_Witness ==
    /\ Called("expand_signal")
    /\ arg \in {<<"b", "3", ":", "0", "]">>, <<"b", "[", "3", ":", "x", "]">>}
    /\ ret = Raise("NameExpandError")

====
